---- MODULE Spec2Model ----
(***************************************************************************)
(* State-machine model of the smart clock server (src/main.go): the        *)
(* connection registry (Hub), the per-client read and write pumps, the     *)
(* signalling senders that share a client's outbound queue, the refresh    *)
(* handlers, the audio capture supervisor, the frame drainer, the audio    *)
(* multiplexer and the per-client streaming pipeline.                      *)
(*                                                                         *)
(* Go channels are sequences with a capacity; a closed channel is a flag.  *)
(* A send on a closed channel and a detected concurrent map access end the *)
(* process: they set `panicked`, after which no task takes a step.         *)
(***************************************************************************)
EXTENDS Integers, Sequences, FiniteSets, TLC

\* ------------------------------------------------------------------ bounds
\* Sockets of the model (each socket has exactly one Client).
Clients == {"c1", "c2"}
\* The sockets accepted in ServerSpec, where every handler of a client runs.
ServerClients == {"c1"}
\* Capacity of Client.send (256 in the source), scaled.
SendCap == 2
\* Capacity of Hub.broadcast (256 in the source), scaled.
BroadcastCap == 1
\* Local ICE candidates a negotiation session gathers.
MaxCandidates == 1
\* Deferred auto-refresh timers pending at the same time, per client.
MaxAutoRefresh == 1
\* Refresh goroutines started by POST /api/refresh and not yet run, per client.
MaxRefreshTasks == 1
\* Goroutines of one client that may stand between the cooldown test of
\* handleRefreshMessage and its timestamp at the same time.
MaxRefreshPassed == 2
\* Minutes the wall clock is let to advance.
MaxTime == 2

\* Client.refreshCooldown, in minutes.
RefreshCooldown == 2
\* time.Time{}: the zero timestamp of a client that never refreshed.
ZeroTime == -1

\* Capacity of a subscriber queue (50 in the source), scaled.
SubCap == 1
\* Capacity of AudioMultiplexer.sourceChannel (100 in the source), scaled.
IntakeCap == 2
\* Frames the capture subprocess produces before its output ends.
MaxFrames == 3
\* maxSilentFrames (25 in the source), scaled.
MaxSilentFrames == 2
\* silenceThreshold
SilenceThreshold == 100

\* Streaming pipelines; each belongs to one client's session.
Pipes == {"p1", "p2"}
NoPipe == "nopipe"
\* Sessions NewPeerConnection creates for a client that offers again on its
\* socket.
MaxSessions == 2
\* Network candidates a client sends per session.
MaxRemoteCandidates == 1
NoSession == 0
NeverClean == -1

\* PCM contents of a frame: little-endian 16-bit samples, as bytes.  The
\* first holds one sample of amplitude 100 (silent), the second one of 101.
PcmFrames == {<<100, 0>>, <<101, 0>>}
LoudFrames == {<<101, 0>>}
StreamPipes == {"p1"}
NoFrame == [seq |-> 0, pcm |-> <<>>]

\* brightnessState.value as declared.
DefaultBrightness == 50
\* The range handleSetBrightness accepts.
MinBrightness == 0
MaxBrightness == 100
\* tabState.value as declared.
DefaultTab == "clock"
\* validTabs of handleSetTab.
ValidTabs == {"clock", "audio", "settings", "info"}
\* Brightness values clients put in set-brightness messages and in POST bodies.
SocketBrightness == {75, 101}
HttpBrightness == {-1, 75, 101}
\* Tab names clients put in set-tab messages and in POST bodies.
TabInputs == {"settings", "bogus"}

\* Payloads that travel through Hub.broadcast.
Payloads == {"time", "raw"}

VARIABLES
    \* Hub
    clients,        \* Hub.clients: the set of registered clients
    broadcast,      \* Hub.broadcast: buffered channel of payloads
    hubPc,          \* where Hub.run is: "idle", "register", "unregister", "broadcast"
    hubClient,      \* the client received from Hub.register / Hub.unregister
    hubMsg,         \* the payload received from Hub.broadcast
    hubIter,        \* clients the broadcast loop has still to visit
    rlock,          \* tasks holding Hub.mutex for reading
    \* Client
    conn,           \* socket: "none" (not accepted yet), "open", "closed"
    readPc,         \* readPump: "none", "reading", "answer", "broadcast", "refresh",
                    \* "unregister", "teardown", "done"
    writePc,        \* writePump: "none", "running", "done"
    send,           \* Client.send: buffered channel of messages
    sendClosed,     \* Client.send has been closed
    closeCount,     \* how many times close(client.send) ran
    closedBy,       \* which hub case closed it: "none", "unregister", "broadcast"
    stopAudio,      \* Client.stopAudio has been closed
    peerConnection, \* Client.peerConnection: "nil", "open", "closed"
    candidates,     \* local candidates the session has still to report
    webrtcConnected,\* Client.webrtcConnected
    lastRefresh,    \* Client.lastRefresh
    autoRefresh,    \* handleAutoRefresh goroutines sleeping for this client
    refreshTasks,   \* `go handleRefreshMessage(client)` goroutines not yet run
    refreshPassed,  \* goroutines inside handleRefreshMessage, past its cooldown test
    \* HTTP refresh handler and clocks
    httpPc,         \* handleRefresh: "idle", "iterating"
    httpIter,       \* clients its range loop has still to visit
    now,            \* wall clock, in minutes
    \* Process
    panicked,       \* "none", or the reason the process died
    \* History of the current broadcast
    bcastStart,     \* registry when the hub took the payload
    bcastGot,       \* clients the payload was appended to
    \* Audio capture supervisor and frame drainer
    audioCmd,       \* the capture handle: "nil" or "set"
    audioCmdMutex,  \* the pipeline holding audioCmdMutex, or NoPipe
    captureStarts,  \* capture subprocesses started (cmd.Start succeeded)
    drainerStarts,  \* `go drainAudioPipe(stdout)` executed
    drainerPc,      \* drainAudioPipe: "none", "reading", "done"
    published,      \* frames the drainer handed to AudioMultiplexer.broadcast
    \* Audio multiplexer
    sourceChannel,  \* AudioMultiplexer.sourceChannel: the intake queue
    listeners,      \* AudioMultiplexer.listeners: the subscribed queues
    fanPc,          \* the fan-out goroutine: "idle", "fanning"
    fanFrame,       \* the frame it took from the intake queue
    fanIter,        \* listeners its range loop has still to visit
    \* Streaming pipelines
    pipePc,         \* streamAudioToTrack: "none", "ensure", "locked", "subscribe",
                    \* "encoder", "loop", "unsubscribe", "done"
    audioChannel,   \* the pipeline's subscriber queue
    audioChannelClosed, \* that queue has been closed
    consecutiveSilentFrames,
    streamingActive,
    received,       \* frames the pipeline dequeued, in order
    sent,           \* frames it encoded and wrote to the track, in order
    subscribedAt,   \* frames published before the pipeline subscribed to an
                    \* empty multiplexer (NeverClean otherwise)
    \* Shared display state and its handlers
    brightnessValue,\* brightnessState.value
    tabValue,       \* tabState.value
    readMsg,        \* per client, the update its read pump is sending to Hub.broadcast
    httpSet,        \* the HTTP set handler: where it is, its update, its reply
    httpResponse,   \* the last response an HTTP display-state handler wrote
    \* Negotiation sessions
    sessions,       \* per client, every session NewPeerConnection created for
                    \* it, oldest first; Client.peerConnection is the last one
    audioTrack,     \* Client.audioTrack: the session the stored track was
                    \* created for (NoSession while nil)
    pipeArgs        \* per pipeline, what it was started with: the client whose
                    \* stop signal it got, the track it got, and the session
                    \* whose callback started it

hubVars == <<clients, broadcast, hubPc, hubClient, hubMsg, hubIter, rlock>>
clientVars == <<conn, readPc, writePc, send, sendClosed, closeCount, closedBy, stopAudio,
                peerConnection, candidates, webrtcConnected, lastRefresh,
                autoRefresh, refreshTasks, refreshPassed>>
httpVars == <<httpPc, httpIter>>
histVars == <<bcastStart, bcastGot>>
captureVars == <<audioCmd, audioCmdMutex, captureStarts, drainerStarts, drainerPc,
                 published>>
muxVars == <<sourceChannel, listeners, fanPc, fanFrame, fanIter>>
pipeVars == <<pipePc, audioChannel, audioChannelClosed,
              consecutiveSilentFrames, streamingActive, received, sent,
              subscribedAt>>
audioVars == <<captureVars, muxVars, pipeVars>>
stateVars == <<brightnessValue, tabValue, readMsg, httpSet, httpResponse>>
sessionVars == <<sessions, audioTrack, pipeArgs>>
vars == <<hubVars, clientVars, httpVars, now, panicked, histVars, audioVars, stateVars,
          sessionVars>>

NoClient == "nobody"

\* The client a pipeline belongs to: the one whose stop signal it was given.
Owner(p) == pipeArgs[p].owner
NoMsg == "nothing"

\* The process is running: a panic or a fatal runtime error ends every task.
Alive == panicked = "none"

\* ---------------------------------------------------------------- channels
\* A channel of capacity cap has room for one more element.
HasRoom(q, cap) == Len(q) < cap

\* ch <- m on a buffered channel with room.
Enqueue(q, m) == Append(q, m)

InitHub ==
    /\ clients = {}
    /\ broadcast = <<>>
    /\ hubPc = "idle"
    /\ hubClient = NoClient
    /\ hubMsg = NoMsg
    /\ hubIter = {}
    /\ rlock = {}
    /\ conn = [c \in Clients |-> "none"]
    /\ readPc = [c \in Clients |-> "none"]
    /\ writePc = [c \in Clients |-> "none"]
    /\ send = [c \in Clients |-> <<>>]
    /\ sendClosed = [c \in Clients |-> FALSE]
    /\ closeCount = [c \in Clients |-> 0]
    /\ closedBy = [c \in Clients |-> "none"]
    /\ stopAudio = [c \in Clients |-> FALSE]
    /\ peerConnection = [c \in Clients |-> "nil"]
    /\ candidates = [c \in Clients |-> 0]
    /\ webrtcConnected = [c \in Clients |-> FALSE]
    /\ lastRefresh = [c \in Clients |-> ZeroTime]
    /\ autoRefresh = [c \in Clients |-> 0]
    /\ refreshTasks = [c \in Clients |-> 0]
    /\ refreshPassed = [c \in Clients |-> 0]
    /\ httpPc = "idle"
    /\ httpIter = {}
    /\ now = 0
    /\ panicked = "none"
    /\ bcastStart = {}
    /\ bcastGot = {}

\* ------------------------------------------------------------------- panics
\* `ch <- m` or `close(ch)` on a closed channel panics; nothing recovers it.
SendOnClosed == "send on closed channel"
CloseOfClosed == "close of closed channel"
\* The runtime's fatal error when it detects a map read racing a map write.
MapRace == "concurrent map iteration and map write"

\* --------------------------------------------------- handleRefreshMessage
\* Mutant of InCooldown: a request made exactly one cooldown after the last
\* refresh is still refused.
InCooldownInclusive(last, t) == last # ZeroTime /\ t - last <= RefreshCooldown

\* The cooldown test of handleRefreshMessage: a refresh is refused while
\* less than the cooldown has elapsed since the last one.
InCooldown(last, t) == last # ZeroTime /\ t - last < RefreshCooldown

\* Mutant of RefreshStamp: the time is recorded only when the command found
\* room in the queue.
RefreshStampOnDelivery(last, t, room) == IF room THEN t ELSE last

\* `client.lastRefresh = time.Now()` comes before the select: the time of
\* the request is recorded whether or not the command finds room.
RefreshStamp(last, t, room) == t

\* What handleRefreshMessage does once the cooldown test let it through:
\* `client.lastRefresh = time.Now()`, then the select with a default.
SendRefresh(c) ==
    /\ lastRefresh' = [lastRefresh EXCEPT ![c] =
            RefreshStamp(@, now, HasRoom(send[c], SendCap))]
    /\ IF sendClosed[c]
       THEN /\ panicked' = SendOnClosed
            /\ UNCHANGED send
       ELSE /\ send' = [send EXCEPT ![c] =
                   IF HasRoom(send[c], SendCap)
                   THEN Enqueue(send[c], "refresh") ELSE send[c]]
            /\ UNCHANGED panicked

\* handleRefreshMessage(c): cooldown check, timestamp update, then a
\* non-blocking send of the refresh command on the client's queue.
HandleRefreshMessage(c) ==
    IF InCooldown(lastRefresh[c], now)
    THEN UNCHANGED <<lastRefresh, send, panicked>>
    ELSE SendRefresh(c)

\* ----------------------------------------------------------------- Hub.run
\* handleWebSocket: the socket is accepted, the Client is built, handed to
\* the hub over the unbuffered register channel, and both pumps start.
HandleWebSocket(c) ==
    /\ Alive
    /\ conn[c] = "none"
    /\ hubPc = "idle"
    /\ conn' = [conn EXCEPT ![c] = "open"]
    /\ readPc' = [readPc EXCEPT ![c] = "reading"]
    /\ writePc' = [writePc EXCEPT ![c] = "running"]
    /\ hubPc' = "register"
    /\ hubClient' = c
    /\ UNCHANGED <<sessionVars, audioVars, stateVars, clients, broadcast, hubMsg, hubIter, rlock, send, sendClosed,
                   closeCount, closedBy, stopAudio, peerConnection, candidates,
                   webrtcConnected, lastRefresh, autoRefresh, refreshTasks, refreshPassed,
                   httpVars, now, panicked, histVars>>

\* case client := <-h.register: under the write lock, insert the client.
HubRegister ==
    /\ Alive
    /\ hubPc = "register"
    /\ rlock = {}
    /\ clients' = clients \cup {hubClient}
    /\ hubPc' = "idle"
    /\ hubClient' = NoClient
    /\ UNCHANGED <<sessionVars, audioVars, stateVars, broadcast, hubMsg, hubIter, rlock, clientVars, httpVars,
                   now, panicked, histVars>>

\* Mutant of IsRegistered: the unregister case closes the queue unconditionally.
IsRegisteredAlways(c, registry) == TRUE

\* The presence test of the unregister case: `if _, ok := h.clients[client]; ok`.
IsRegistered(c, registry) == c \in registry

\* Mutant of DeleteClient: the entry is left in the map.
DeleteClientKeeps(registry, c) == registry

\* delete(h.clients, client)
DeleteClient(registry, c) == registry \ {c}

\* case client := <-h.unregister: under the write lock, remove the client
\* and close its queue if it is still registered.
HubUnregister ==
    /\ Alive
    /\ hubPc = "unregister"
    /\ rlock = {}
    /\ IF IsRegistered(hubClient, clients)
       THEN /\ clients' = DeleteClient(clients, hubClient)
            /\ closeCount' = [closeCount EXCEPT ![hubClient] = @ + 1]
            /\ closedBy' = [closedBy EXCEPT ![hubClient] = "unregister"]
            /\ IF sendClosed[hubClient]
               THEN panicked' = CloseOfClosed /\ UNCHANGED sendClosed
               ELSE /\ sendClosed' = [sendClosed EXCEPT ![hubClient] = TRUE]
                    /\ UNCHANGED panicked
       ELSE UNCHANGED <<clients, closeCount, closedBy, sendClosed, panicked>>
    /\ hubPc' = "idle"
    /\ hubClient' = NoClient
    /\ UNCHANGED <<sessionVars, audioVars, stateVars, broadcast, hubMsg, hubIter, rlock, conn, readPc, writePc, send,
                   stopAudio, peerConnection, candidates, webrtcConnected,
                   lastRefresh, autoRefresh, refreshTasks, refreshPassed, httpVars, now,
                   histVars>>

\* case message := <-h.broadcast: take the payload, take the read lock and
\* start ranging over the registry.
HubTakeBroadcast ==
    /\ Alive
    /\ hubPc = "idle"
    /\ broadcast # <<>>
    /\ hubMsg' = Head(broadcast)
    /\ broadcast' = Tail(broadcast)
    /\ hubPc' = "broadcast"
    /\ hubIter' = clients
    /\ rlock' = rlock \cup {"hub"}
    /\ bcastStart' = clients
    /\ bcastGot' = {}
    /\ UNCHANGED <<sessionVars, audioVars, stateVars, clients, hubClient, clientVars, httpVars, now, panicked>>

\* Mutant of SendReady: the queue behaves as an unbuffered channel with no
\* receiver waiting, so the send case is never ready.
SendReadyUnbuffered(q) == HasRoom(q, 0)

\* `case client.send <- message:` of the broadcast loop's select is ready
\* when the client's queue has room; otherwise the default case runs.
SendReady(q) == HasRoom(q, SendCap)

\* One iteration of the broadcast loop: a non-blocking send to the client,
\* and on a full queue close(client.send) and delete(h.clients, client),
\* both while holding only the read lock.  A delete that runs while the
\* HTTP refresh handler ranges over the same map is a data race: the
\* runtime may stop the process, and the other iterator may or may not
\* still visit the deleted client.
HubBroadcastStep(c) ==
    /\ Alive
    /\ hubPc = "broadcast"
    /\ c \in hubIter
    /\ hubIter' = hubIter \ {c}
    /\ IF sendClosed[c]
       THEN /\ panicked' = SendOnClosed
            /\ UNCHANGED <<clients, send, sendClosed, closeCount, closedBy, httpIter, bcastGot>>
       ELSE IF SendReady(send[c])
       THEN /\ send' = [send EXCEPT ![c] = Enqueue(send[c], hubMsg)]
            /\ bcastGot' = bcastGot \cup {c}
            /\ UNCHANGED <<clients, sendClosed, closeCount, closedBy, httpIter, panicked>>
       ELSE /\ sendClosed' = [sendClosed EXCEPT ![c] = TRUE]
            /\ closeCount' = [closeCount EXCEPT ![c] = @ + 1]
            /\ closedBy' = [closedBy EXCEPT ![c] = "broadcast"]
            /\ clients' = DeleteClient(clients, c)
            /\ IF "http" \in rlock
               THEN /\ panicked' \in {"none", MapRace}
                    /\ httpIter' \in {httpIter, httpIter \ {c}}
               ELSE UNCHANGED <<panicked, httpIter>>
            /\ UNCHANGED <<send, bcastGot>>
    /\ UNCHANGED <<sessionVars, audioVars, stateVars, broadcast, hubPc, hubClient, hubMsg, rlock, conn, readPc, writePc,
                   stopAudio, peerConnection, candidates, webrtcConnected,
                   lastRefresh, autoRefresh, refreshTasks, refreshPassed, httpPc, now, bcastStart>>

\* The range loop is over: release the read lock and go back to the select.
HubBroadcastEnd ==
    /\ Alive
    /\ hubPc = "broadcast"
    /\ hubIter = {}
    /\ hubPc' = "idle"
    /\ hubMsg' = NoMsg
    /\ rlock' = rlock \ {"hub"}
    /\ bcastStart' = {}
    /\ bcastGot' = {}
    /\ UNCHANGED <<sessionVars, audioVars, stateVars, clients, broadcast, hubClient, hubIter, clientVars, httpVars,
                   now, panicked>>

\* ---------------------------------------------------------------- readPump
\* The default case of the type switch: an unrecognised message is sent to
\* Hub.broadcast verbatim (a blocking send on the buffered channel).
ReadOther(c) ==
    /\ Alive
    /\ readPc[c] = "reading"
    /\ conn[c] = "open"
    /\ HasRoom(broadcast, BroadcastCap)
    /\ broadcast' = Enqueue(broadcast, "raw")
    /\ UNCHANGED <<sessionVars, audioVars, stateVars, clients, hubPc, hubClient, hubMsg, hubIter, rlock, clientVars,
                   httpVars, now, panicked, histVars>>

\* case "refresh": handleRefreshMessage(client), in the read loop itself.
ReadRefresh(c) ==
    /\ Alive
    /\ readPc[c] = "reading"
    /\ conn[c] = "open"
    /\ HandleRefreshMessage(c)
    /\ UNCHANGED <<sessionVars, audioVars, stateVars, hubVars, conn, readPc, writePc, sendClosed, closeCount, closedBy, stopAudio,
                   peerConnection, candidates, webrtcConnected, autoRefresh,
                   refreshTasks, refreshPassed, httpVars, now, histVars>>

\* case "webrtc-connected"
ReadWebrtcConnected(c) ==
    /\ Alive
    /\ readPc[c] = "reading"
    /\ conn[c] = "open"
    /\ ~webrtcConnected[c]
    /\ webrtcConnected' = [webrtcConnected EXCEPT ![c] = TRUE]
    /\ UNCHANGED <<sessionVars, audioVars, stateVars, hubVars, conn, readPc, writePc, send, sendClosed, closeCount, closedBy,
                   stopAudio, peerConnection, candidates, lastRefresh,
                   autoRefresh, refreshTasks, refreshPassed, httpVars, now, panicked,
                   histVars>>

\* case "webrtc-disconnected": only a client that had reported connected
\* starts a deferred auto-refresh (`go handleAutoRefresh(client)`).
ReadWebrtcDisconnected(c) ==
    /\ Alive
    /\ readPc[c] = "reading"
    /\ conn[c] = "open"
    /\ IF webrtcConnected[c]
       THEN /\ autoRefresh[c] < MaxAutoRefresh
            /\ webrtcConnected' = [webrtcConnected EXCEPT ![c] = FALSE]
            /\ autoRefresh' = [autoRefresh EXCEPT ![c] = @ + 1]
       ELSE UNCHANGED <<webrtcConnected, autoRefresh>>
    /\ UNCHANGED <<sessionVars, audioVars, stateVars, hubVars, conn, readPc, writePc, send, sendClosed, closeCount, closedBy,
                   stopAudio, peerConnection, candidates, lastRefresh,
                   refreshTasks, refreshPassed, httpVars, now, panicked, histVars>>

\* Outcomes of the steps of handleWebRTCOffer before the answer is sent:
\* "no-session": NewPeerConnection failed, nothing was stored;
\* "failed": the session was stored in the client, a later step failed;
\* "answered": every step succeeded and candidate gathering has begun.
OfferOutcomes == {"no-session", "failed", "answered"}
\* The failures between the store of the session and the store of the track:
\* "no-description": SetRemoteDescription failed;
\* "no-track": NewTrackLocalStaticSample failed.
\* "failed" is then a failure after the track was stored in the client
\* (AddTrack, CreateAnswer or SetLocalDescription).
\* A session as NewPeerConnection returns it, with how far handleWebRTCOffer
\* took it.
NewSession(outcome) ==
    [open |-> TRUE,
     stage |-> CASE outcome = "no-description" -> "created"
                 [] outcome = "no-track" -> "described"
                 [] outcome = "failed" -> "tracked"
                 [] outcome = "answered" -> "answered",
     remote |-> 0, transport |-> "new"]

\* Client.peerConnection: the session stored last, NoSession while nil.
CurrentSession(c) == Len(sessions[c])

\* case "webrtc-offer": handleWebRTCOffer up to the send of the answer.  The
\* new session is stored in Client.peerConnection as soon as it exists, over
\* whatever was stored there; the track is stored in Client.audioTrack as
\* soon as it exists.
ReadOffer(c, outcome) ==
    /\ Alive
    /\ readPc[c] = "reading"
    /\ conn[c] = "open"
    \* the first client negotiates once per socket, the second offers again
    /\ outcome # "no-session" =>
          Len(sessions[c]) < (IF c = "c1" THEN 1 ELSE MaxSessions)
    /\ peerConnection' = [peerConnection EXCEPT ![c] =
            IF outcome = "no-session" THEN @ ELSE "open"]
    /\ sessions' = [sessions EXCEPT ![c] =
            IF outcome = "no-session" THEN @ ELSE Append(@, NewSession(outcome))]
    /\ audioTrack' = [audioTrack EXCEPT ![c] =
            IF outcome \in {"failed", "answered"} THEN Len(sessions[c]) + 1 ELSE @]
    /\ candidates' = [candidates EXCEPT ![c] =
            IF outcome = "answered" THEN MaxCandidates ELSE @]
    /\ readPc' = [readPc EXCEPT ![c] =
            IF outcome = "answered" THEN "answer" ELSE @]
    /\ UNCHANGED <<pipeArgs, audioVars, stateVars, hubVars, conn, writePc, send, sendClosed, closeCount, closedBy, stopAudio,
                   webrtcConnected, lastRefresh, autoRefresh, refreshTasks, refreshPassed, httpVars,
                   now, panicked, histVars>>

\* handleICECandidate: a candidate for a client without a session is logged
\* and dropped; otherwise AddICECandidate is called on Client.peerConnection,
\* which takes the candidate when it is well-formed and the session is open
\* and has its remote description, and returns an error, logged, otherwise.
\* Mutant of SessionTakes: the session refuses every candidate.
SessionTakesNever(session, valid) == FALSE

SessionTakes(session, valid) ==
    valid /\ session.open /\ session.stage # "created"

\* `client.peerConnection != nil`
HasSession(c) == CurrentSession(c) # NoSession

\* case "ice-candidate" of the read loop.
ReadCandidate(c, valid) ==
    /\ Alive
    /\ readPc[c] = "reading"
    /\ conn[c] = "open"
    /\ IF HasSession(c)
       THEN LET i == CurrentSession(c) IN
            IF SessionTakes(sessions[c][i], valid)
            THEN /\ sessions[c][i].remote < MaxRemoteCandidates
                 /\ sessions' = [sessions EXCEPT ![c][i].remote = @ + 1]
            ELSE UNCHANGED sessions
       ELSE UNCHANGED sessions
    /\ UNCHANGED <<audioTrack, pipeArgs, audioVars, stateVars, hubVars, clientVars,
                   httpVars, now, panicked, histVars>>

\* The connection states a session's transport reports after the one it
\* is in.
NextTransport(state) ==
    CASE state = "new" -> {"connected"}
      [] state = "connected" -> {"disconnected"}
      [] state = "disconnected" -> {"connected", "failed"}
      [] OTHER -> {}

\* The OnConnectionStateChange callback of a session, from the session's own
\* goroutine.  Only a session whose answer was sent exchanges packets; a
\* session reports until it is closed.  On "connected" the callback runs
\* `go streamAudioToTrack(client.audioTrack, client.stopAudio)` with the
\* track stored in the client at that moment; the other states are logged.
ConnectionStateChange(c, i, state, p) ==
    /\ Alive
    /\ i \in DOMAIN sessions[c]
    /\ sessions[c][i].open
    /\ sessions[c][i].stage = "answered"
    /\ ~(i = CurrentSession(c) /\ readPc[c] = "answer")
    /\ state \in NextTransport(sessions[c][i].transport)
    /\ sessions' = [sessions EXCEPT ![c][i].transport = state]
    /\ IF state = "connected"
       THEN /\ p \in Pipes
            /\ pipePc[p] = "none"
            /\ pipePc' = [pipePc EXCEPT ![p] = "ensure"]
            /\ pipeArgs' = [pipeArgs EXCEPT ![p] =
                    [owner |-> c, track |-> audioTrack[c], by |-> i]]
       ELSE /\ p = NoPipe
            /\ UNCHANGED <<pipePc, pipeArgs>>
    /\ UNCHANGED <<audioTrack, stateVars, hubVars, clientVars, httpVars, now, panicked,
                   histVars, captureVars, muxVars, audioChannel, audioChannelClosed,
                   consecutiveSilentFrames, streamingActive, received, sent,
                   subscribedAt>>

\* A blocking `client.send <- m`: it waits while the queue is full and
\* panics if the queue is, or becomes, closed.
BlockingSendEnabled(c) == sendClosed[c] \/ HasRoom(send[c], SendCap)

BlockingSend(c, m) ==
    IF sendClosed[c]
    THEN panicked' = SendOnClosed /\ UNCHANGED send
    ELSE send' = [send EXCEPT ![c] = Enqueue(send[c], m)] /\ UNCHANGED panicked

\* `client.send <- answerJSON`, the last step of handleWebRTCOffer.
SendAnswer(c) ==
    /\ Alive
    /\ readPc[c] = "answer"
    /\ BlockingSendEnabled(c)
    /\ BlockingSend(c, "webrtc-answer")
    /\ readPc' = [readPc EXCEPT ![c] = "reading"]
    /\ UNCHANGED <<sessionVars, audioVars, stateVars, hubVars, conn, writePc, sendClosed, closeCount, closedBy, stopAudio,
                   peerConnection, candidates, webrtcConnected, lastRefresh,
                   autoRefresh, refreshTasks, refreshPassed, httpVars, now, histVars>>

\* The OnICECandidate callback of an open session: `client.send <- candidateJSON`
\* from the session's own goroutine.
LocalCandidate(c) ==
    /\ Alive
    /\ peerConnection[c] = "open"
    /\ candidates[c] > 0
    /\ BlockingSendEnabled(c)
    /\ BlockingSend(c, "ice-candidate")
    /\ candidates' = [candidates EXCEPT ![c] = @ - 1]
    /\ UNCHANGED <<sessionVars, audioVars, stateVars, hubVars, conn, readPc, writePc, sendClosed, closeCount, closedBy, stopAudio,
                   peerConnection, webrtcConnected, lastRefresh, autoRefresh,
                   refreshTasks, refreshPassed, httpVars, now, histVars>>

\* The peer closes the socket (or the network drops it).
PeerClose(c) ==
    /\ Alive
    /\ conn[c] = "open"
    /\ conn' = [conn EXCEPT ![c] = "closed"]
    /\ UNCHANGED <<sessionVars, audioVars, stateVars, hubVars, readPc, writePc, send, sendClosed, closeCount, closedBy, stopAudio,
                   peerConnection, candidates, webrtcConnected, lastRefresh,
                   autoRefresh, refreshTasks, refreshPassed, httpVars, now, panicked,
                   histVars>>

\* ReadMessage fails on a closed socket: the read loop breaks and its
\* deferred function starts with `hub.unregister <- client`.
ReadError(c) ==
    /\ Alive
    /\ readPc[c] = "reading"
    /\ conn[c] = "closed"
    /\ readPc' = [readPc EXCEPT ![c] = "unregister"]
    /\ UNCHANGED <<sessionVars, audioVars, stateVars, hubVars, conn, writePc, send, sendClosed, closeCount, closedBy, stopAudio,
                   peerConnection, candidates, webrtcConnected, lastRefresh,
                   autoRefresh, refreshTasks, refreshPassed, httpVars, now, panicked,
                   histVars>>

\* `hub.unregister <- client` meets the hub's select (unbuffered channel).
SendUnregister(c) ==
    /\ Alive
    /\ readPc[c] = "unregister"
    /\ hubPc = "idle"
    /\ hubPc' = "unregister"
    /\ hubClient' = c
    /\ readPc' = [readPc EXCEPT ![c] = "teardown"]
    /\ UNCHANGED <<sessionVars, audioVars, stateVars, clients, broadcast, hubMsg, hubIter, rlock, conn, writePc, send,
                   sendClosed, closeCount, closedBy, stopAudio, peerConnection, candidates,
                   webrtcConnected, lastRefresh, autoRefresh, refreshTasks, refreshPassed,
                   httpVars, now, panicked, histVars>>

\* The rest of readPump's deferred function: close(client.stopAudio), close
\* the session if there is one, close the socket.
ReadPumpTeardown(c) ==
    /\ Alive
    /\ readPc[c] = "teardown"
    /\ stopAudio' = [stopAudio EXCEPT ![c] = TRUE]
    /\ peerConnection' = [peerConnection EXCEPT ![c] =
            IF @ = "nil" THEN "nil" ELSE "closed"]
    /\ sessions' = [sessions EXCEPT ![c] =
            IF CurrentSession(c) = NoSession THEN @
            ELSE [@ EXCEPT ![CurrentSession(c)].open = FALSE,
                           ![CurrentSession(c)].transport = "closed"]]
    /\ conn' = [conn EXCEPT ![c] = "closed"]
    /\ readPc' = [readPc EXCEPT ![c] = "done"]
    /\ UNCHANGED <<audioTrack, pipeArgs, audioVars, stateVars, hubVars, writePc, send, sendClosed, closeCount, closedBy, candidates,
                   webrtcConnected, lastRefresh, autoRefresh, refreshTasks, refreshPassed, httpVars,
                   now, panicked, histVars>>

\* --------------------------------------------------------------- writePump
\* Mutant of Receive: the receive hands out the newest element of the
\* channel's buffer.
ReceiveNewest(q) == [message |-> q[Len(q)], rest |-> SubSeq(q, 1, Len(q) - 1)]

\* `message := <-ch` on a non-empty buffered channel: the oldest element
\* is handed out and leaves the buffer.
Receive(q) == [message |-> Head(q), rest |-> Tail(q)]

\* One iteration of `for message := range client.send`: the message the
\* range receives is written to the socket; a failed write ends the pump,
\* which closes the socket.  A write on a closed socket always fails.
WriteMessage(c, ok) ==
    /\ Alive
    /\ writePc[c] = "running"
    /\ send[c] # <<>>
    /\ send' = [send EXCEPT ![c] = Receive(@).rest]
    /\ IF ok /\ conn[c] = "open"
       THEN UNCHANGED <<writePc, conn>>
       ELSE /\ writePc' = [writePc EXCEPT ![c] = "done"]
            /\ conn' = [conn EXCEPT ![c] = "closed"]
    /\ UNCHANGED <<sessionVars, audioVars, stateVars, hubVars, readPc, sendClosed, closeCount, closedBy, stopAudio, peerConnection,
                   candidates, webrtcConnected, lastRefresh, autoRefresh,
                   refreshTasks, refreshPassed, httpVars, now, panicked, histVars>>

\* The range loop ends when the queue is closed and drained; the deferred
\* conn.Close() runs.
WritePumpExit(c) ==
    /\ Alive
    /\ writePc[c] = "running"
    /\ send[c] = <<>>
    /\ sendClosed[c]
    /\ writePc' = [writePc EXCEPT ![c] = "done"]
    /\ conn' = [conn EXCEPT ![c] = "closed"]
    /\ UNCHANGED <<sessionVars, audioVars, stateVars, hubVars, readPc, send, sendClosed, closeCount, closedBy, stopAudio,
                   peerConnection, candidates, webrtcConnected, lastRefresh,
                   autoRefresh, refreshTasks, refreshPassed, httpVars, now, panicked,
                   histVars>>

\* ------------------------------------------------- refresh tasks and clocks
\* handleAutoRefresh after its sleep: a refresh request unless the client
\* reported webrtc-connected again.
\* Mutant of StillDisconnected: the timer does not look at the flag.
StillDisconnectedAlways(c) == TRUE

\* `!client.webrtcConnected`, read when the sleep is over.
StillDisconnected(c) == ~webrtcConnected[c]

AutoRefreshFire(c) ==
    /\ Alive
    /\ autoRefresh[c] > 0
    /\ autoRefresh' = [autoRefresh EXCEPT ![c] = @ - 1]
    /\ IF StillDisconnected(c)
       THEN HandleRefreshMessage(c)
       ELSE UNCHANGED <<lastRefresh, send, panicked>>
    /\ UNCHANGED <<sessionVars, audioVars, stateVars, hubVars, conn, readPc, writePc, sendClosed, closeCount, closedBy, stopAudio,
                   peerConnection, candidates, webrtcConnected, refreshTasks, refreshPassed,
                   httpVars, now, histVars>>

\* handleRefresh (POST /api/refresh): take the read lock and range over the
\* registry.
HttpRefreshBegin ==
    /\ Alive
    /\ httpPc = "idle"
    /\ httpPc' = "iterating"
    /\ httpIter' = clients
    /\ rlock' = rlock \cup {"http"}
    /\ UNCHANGED <<sessionVars, audioVars, stateVars, clients, broadcast, hubPc, hubClient, hubMsg, hubIter, clientVars,
                   now, panicked, histVars>>

\* One iteration of its loop: `go handleRefreshMessage(client)`.
HttpRefreshStep(c) ==
    /\ Alive
    /\ httpPc = "iterating"
    /\ c \in httpIter
    /\ refreshTasks[c] < MaxRefreshTasks
    /\ httpIter' = httpIter \ {c}
    /\ refreshTasks' = [refreshTasks EXCEPT ![c] = @ + 1]
    /\ UNCHANGED <<sessionVars, audioVars, stateVars, hubVars, conn, readPc, writePc, send, sendClosed, closeCount, closedBy,
                   stopAudio, peerConnection, candidates, webrtcConnected,
                   lastRefresh, autoRefresh, refreshPassed, httpPc, now, panicked,
                   histVars>>

\* The loop is over: release the read lock.
HttpRefreshEnd ==
    /\ Alive
    /\ httpPc = "iterating"
    /\ httpIter = {}
    /\ httpPc' = "idle"
    /\ rlock' = rlock \ {"http"}
    /\ UNCHANGED <<sessionVars, audioVars, stateVars, clients, broadcast, hubPc, hubClient, hubMsg, hubIter, clientVars,
                   httpIter, now, panicked, histVars>>

\* A goroutine started by handleRefresh runs handleRefreshMessage(client).
RefreshTaskRun(c) ==
    /\ Alive
    /\ refreshTasks[c] > 0
    /\ refreshTasks' = [refreshTasks EXCEPT ![c] = @ - 1]
    /\ HandleRefreshMessage(c)
    /\ UNCHANGED <<sessionVars, audioVars, stateVars, hubVars, conn, readPc, writePc, sendClosed, closeCount, closedBy, stopAudio,
                   peerConnection, candidates, webrtcConnected, autoRefresh,
                   refreshPassed, httpVars, now, histVars>>

\* The same goroutine as the scheduler can cut it: first the cooldown test
\* on client.lastRefresh, which nothing locks.
RefreshTaskCheck(c) ==
    /\ Alive
    /\ refreshTasks[c] > 0
    /\ refreshPassed[c] < MaxRefreshPassed
    /\ refreshTasks' = [refreshTasks EXCEPT ![c] = @ - 1]
    /\ refreshPassed' = [refreshPassed EXCEPT ![c] =
            IF InCooldown(lastRefresh[c], now) THEN @ ELSE @ + 1]
    /\ UNCHANGED <<sessionVars, audioVars, stateVars, hubVars, conn, readPc, writePc, send, sendClosed, closeCount, closedBy, stopAudio,
                   peerConnection, candidates, webrtcConnected, lastRefresh,
                   autoRefresh, httpVars, now, panicked, histVars>>

\* handleAutoRefresh cut the same way: the sleep is over, the flag is read,
\* and the cooldown test of handleRefreshMessage is made.
AutoRefreshCheck(c) ==
    /\ Alive
    /\ autoRefresh[c] > 0
    /\ refreshPassed[c] < MaxRefreshPassed
    /\ autoRefresh' = [autoRefresh EXCEPT ![c] = @ - 1]
    /\ refreshPassed' = [refreshPassed EXCEPT ![c] =
            IF StillDisconnected(c) /\ ~InCooldown(lastRefresh[c], now)
            THEN @ + 1 ELSE @]
    /\ UNCHANGED <<sessionVars, audioVars, stateVars, hubVars, conn, readPc, writePc, send, sendClosed, closeCount, closedBy, stopAudio,
                   peerConnection, candidates, webrtcConnected, lastRefresh,
                   refreshTasks, httpVars, now, panicked, histVars>>

\* A goroutine that passed the cooldown test goes on: the timestamp, then
\* the non-blocking send.
RefreshTaskSend(c) ==
    /\ Alive
    /\ refreshPassed[c] > 0
    /\ refreshPassed' = [refreshPassed EXCEPT ![c] = @ - 1]
    /\ SendRefresh(c)
    /\ UNCHANGED <<sessionVars, audioVars, stateVars, hubVars, conn, readPc, writePc, sendClosed, closeCount, closedBy, stopAudio,
                   peerConnection, candidates, webrtcConnected, autoRefresh,
                   refreshTasks, httpVars, now, histVars>>

\* The read pump's call cut the same way: the cooldown test ...
ReadRefreshCheck(c) ==
    /\ Alive
    /\ readPc[c] = "reading"
    /\ conn[c] = "open"
    /\ readPc' = [readPc EXCEPT ![c] =
            IF InCooldown(lastRefresh[c], now) THEN @ ELSE "refresh"]
    /\ UNCHANGED <<sessionVars, audioVars, stateVars, hubVars, conn, writePc, send, sendClosed, closeCount, closedBy, stopAudio,
                   peerConnection, candidates, webrtcConnected, lastRefresh,
                   autoRefresh, refreshTasks, refreshPassed, httpVars, now,
                   panicked, histVars>>

\* ... and the rest of the call, after which the pump reads again.
ReadRefreshSend(c) ==
    /\ Alive
    /\ readPc[c] = "refresh"
    /\ readPc' = [readPc EXCEPT ![c] = "reading"]
    /\ SendRefresh(c)
    /\ UNCHANGED <<sessionVars, audioVars, stateVars, hubVars, conn, writePc, sendClosed, closeCount, closedBy, stopAudio,
                   peerConnection, candidates, webrtcConnected, autoRefresh,
                   refreshTasks, refreshPassed, httpVars, now, histVars>>

\* broadcastTime: every second the clock payload is sent to Hub.broadcast
\* (a blocking send).
BroadcastTime ==
    /\ Alive
    /\ HasRoom(broadcast, BroadcastCap)
    /\ broadcast' = Enqueue(broadcast, "time")
    /\ UNCHANGED <<sessionVars, audioVars, stateVars, clients, hubPc, hubClient, hubMsg, hubIter, rlock, clientVars,
                   httpVars, now, panicked, histVars>>

\* A minute passes on the wall clock.
TimePasses ==
    /\ Alive
    /\ now < MaxTime
    /\ now' = now + 1
    /\ UNCHANGED <<sessionVars, audioVars, stateVars, hubVars, clientVars, httpVars, panicked, histVars>>

\* ------------------------------------------------- brightness and tab state
\* json.Marshal of a BrightnessMessage of type brightness-update.
BrightnessUpdate(v) == "brightness-update:" \o ToString(v)
\* json.Marshal of a TabMessage of type tab-update.
TabUpdate(t) == "tab-update:" \o t
\* The body of the responses of the brightness and the tab endpoints.
BrightnessResponse(v) == "brightness:" \o ToString(v)
TabResponse(t) == "tab:" \o t
\* http.Error with StatusMethodNotAllowed and with StatusBadRequest.
MethodNotAllowed == "StatusMethodNotAllowed"
BadRequest == "StatusBadRequest"

IdleSet == [pc |-> "idle", msg |-> NoMsg, reply |-> NoMsg]

InitState ==
    /\ brightnessValue = DefaultBrightness
    /\ tabValue = DefaultTab
    /\ readMsg = [c \in Clients |-> NoMsg]
    /\ httpSet = IdleSet
    /\ httpResponse = NoMsg

\* Mutant of StoreBrightness: the write is lost.
StoreBrightnessKeeps(old, v) == old

\* brightnessState.value = msg.Brightness
StoreBrightness(old, v) == v

\* handleBrightnessMessage, case set-brightness: the value of the message is
\* stored under the write lock, then broadcastBrightness marshals an update
\* carrying it for Hub.broadcast.
ReadSetBrightness(c, v) ==
    /\ Alive
    /\ readPc[c] = "reading"
    /\ conn[c] = "open"
    /\ brightnessValue' = StoreBrightness(brightnessValue, v)
    /\ readMsg' = [readMsg EXCEPT ![c] = BrightnessUpdate(v)]
    /\ readPc' = [readPc EXCEPT ![c] = "broadcast"]
    /\ UNCHANGED <<sessionVars, audioVars, hubVars, conn, writePc, send, sendClosed, closeCount,
                   closedBy, stopAudio, peerConnection, candidates, webrtcConnected,
                   lastRefresh, autoRefresh, refreshTasks, refreshPassed, httpVars, now, panicked,
                   histVars, tabValue, httpSet, httpResponse>>

\* handleBrightnessMessage, case get-brightness: the stored value is read
\* under the read lock and an update carrying it is marshalled.
ReadGetBrightness(c) ==
    /\ Alive
    /\ readPc[c] = "reading"
    /\ conn[c] = "open"
    /\ readMsg' = [readMsg EXCEPT ![c] = BrightnessUpdate(brightnessValue)]
    /\ readPc' = [readPc EXCEPT ![c] = "broadcast"]
    /\ UNCHANGED <<sessionVars, audioVars, hubVars, conn, writePc, send, sendClosed, closeCount,
                   closedBy, stopAudio, peerConnection, candidates, webrtcConnected,
                   lastRefresh, autoRefresh, refreshTasks, refreshPassed, httpVars, now, panicked,
                   histVars, brightnessValue, tabValue, httpSet, httpResponse>>

\* handleTabMessage, case set-tab.
ReadSetTab(c, t) ==
    /\ Alive
    /\ readPc[c] = "reading"
    /\ conn[c] = "open"
    /\ tabValue' = t
    /\ readMsg' = [readMsg EXCEPT ![c] = TabUpdate(t)]
    /\ readPc' = [readPc EXCEPT ![c] = "broadcast"]
    /\ UNCHANGED <<sessionVars, audioVars, hubVars, conn, writePc, send, sendClosed, closeCount,
                   closedBy, stopAudio, peerConnection, candidates, webrtcConnected,
                   lastRefresh, autoRefresh, refreshTasks, refreshPassed, httpVars, now, panicked,
                   histVars, brightnessValue, httpSet, httpResponse>>

\* handleTabMessage, case get-tab.
ReadGetTab(c) ==
    /\ Alive
    /\ readPc[c] = "reading"
    /\ conn[c] = "open"
    /\ readMsg' = [readMsg EXCEPT ![c] = TabUpdate(tabValue)]
    /\ readPc' = [readPc EXCEPT ![c] = "broadcast"]
    /\ UNCHANGED <<sessionVars, audioVars, hubVars, conn, writePc, send, sendClosed, closeCount,
                   closedBy, stopAudio, peerConnection, candidates, webrtcConnected,
                   lastRefresh, autoRefresh, refreshTasks, refreshPassed, httpVars, now, panicked,
                   histVars, brightnessValue, tabValue, httpSet, httpResponse>>

\* `hub.broadcast <- data` at the end of broadcastBrightness and broadcastTab,
\* called from the read loop: a blocking send on the buffered channel, after
\* which the read loop reads the next message.
ReadBroadcastSend(c) ==
    /\ Alive
    /\ readPc[c] = "broadcast"
    /\ HasRoom(broadcast, BroadcastCap)
    /\ broadcast' = Enqueue(broadcast, readMsg[c])
    /\ readMsg' = [readMsg EXCEPT ![c] = NoMsg]
    /\ readPc' = [readPc EXCEPT ![c] = "reading"]
    /\ UNCHANGED <<sessionVars, audioVars, clients, hubPc, hubClient, hubMsg, hubIter, rlock, conn,
                   writePc, send, sendClosed, closeCount, closedBy, stopAudio,
                   peerConnection, candidates, webrtcConnected, lastRefresh,
                   autoRefresh, refreshTasks, refreshPassed, httpVars, now, panicked, histVars,
                   brightnessValue, tabValue, httpSet, httpResponse>>

\* Requests to the set endpoints: the method, whether the body decodes, and
\* the value the decoded struct holds (its zero value when it does not).
BrightnessRequests ==
    [method : {"POST"}, decodes : {TRUE}, brightness : HttpBrightness]
        \cup {[method |-> "GET", decodes |-> TRUE, brightness |-> 75],
               [method |-> "POST", decodes |-> FALSE, brightness |-> 0]}
TabRequests ==
    [method : {"POST"}, decodes : {TRUE}, tab : TabInputs]
        \cup {[method |-> "GET", decodes |-> TRUE, tab |-> "settings"],
               [method |-> "POST", decodes |-> FALSE, tab |-> ""]}

\* handleGetBrightness
HttpGetBrightness(method) ==
    /\ Alive
    /\ httpResponse' = IF method # "GET" THEN MethodNotAllowed
                       ELSE BrightnessResponse(brightnessValue)
    /\ UNCHANGED <<sessionVars, audioVars, hubVars, clientVars, httpVars, now, panicked, histVars,
                   brightnessValue, tabValue, readMsg, httpSet>>

\* handleGetTab
HttpGetTab(method) ==
    /\ Alive
    /\ httpResponse' = IF method # "GET" THEN MethodNotAllowed
                       ELSE TabResponse(tabValue)
    /\ UNCHANGED <<sessionVars, audioVars, hubVars, clientVars, httpVars, now, panicked, histVars,
                   brightnessValue, tabValue, readMsg, httpSet>>

\* The range test of handleSetBrightness.
ValidBrightness(v) == ~(v < MinBrightness \/ v > MaxBrightness)

\* Mutant of ValidTab: every name is accepted.
ValidTabAny(t) == TRUE

\* validTabs[req.Tab]
ValidTab(t) == t \in ValidTabs

\* handleSetBrightness up to the call of broadcastBrightness: a request with
\* the wrong method, a body that does not decode or a value out of range is
\* answered with an error and changes nothing; otherwise the value is stored
\* under the write lock and the update is marshalled.
HttpSetBrightness(req) ==
    /\ Alive
    /\ httpSet.pc = "idle"
    /\ IF req.method # "POST"
       THEN httpResponse' = MethodNotAllowed /\ UNCHANGED <<brightnessValue, httpSet>>
       ELSE IF ~req.decodes \/ ~ValidBrightness(req.brightness)
       THEN httpResponse' = BadRequest /\ UNCHANGED <<brightnessValue, httpSet>>
       ELSE /\ brightnessValue' = req.brightness
            /\ httpSet' = [pc |-> "sending", msg |-> BrightnessUpdate(req.brightness),
                           reply |-> BrightnessResponse(req.brightness)]
            /\ UNCHANGED httpResponse
    /\ UNCHANGED <<sessionVars, audioVars, hubVars, clientVars, httpVars, now, panicked, histVars,
                   tabValue, readMsg>>

\* handleSetTab up to the call of broadcastTab.
HttpSetTab(req) ==
    /\ Alive
    /\ httpSet.pc = "idle"
    /\ IF req.method # "POST"
       THEN httpResponse' = MethodNotAllowed /\ UNCHANGED <<tabValue, httpSet>>
       ELSE IF ~req.decodes \/ ~ValidTab(req.tab)
       THEN httpResponse' = BadRequest /\ UNCHANGED <<tabValue, httpSet>>
       ELSE /\ tabValue' = req.tab
            /\ httpSet' = [pc |-> "sending", msg |-> TabUpdate(req.tab),
                           reply |-> TabResponse(req.tab)]
            /\ UNCHANGED httpResponse
    /\ UNCHANGED <<sessionVars, audioVars, hubVars, clientVars, httpVars, now, panicked, histVars,
                   brightnessValue, readMsg>>

\* The rest of a set handler: `hub.broadcast <- data` (a blocking send), then
\* the response carrying the value is written.
HttpSetSend ==
    /\ Alive
    /\ httpSet.pc = "sending"
    /\ HasRoom(broadcast, BroadcastCap)
    /\ broadcast' = Enqueue(broadcast, httpSet.msg)
    /\ httpResponse' = httpSet.reply
    /\ httpSet' = IdleSet
    /\ UNCHANGED <<sessionVars, audioVars, clients, hubPc, hubClient, hubMsg, hubIter, rlock,
                   clientVars, httpVars, now, panicked, histVars, brightnessValue,
                   tabValue, readMsg>>

\* ------------------------------------------------------ ensureAudioCapture
InitAudio ==
    /\ audioCmd = "nil"
    /\ audioCmdMutex = NoPipe
    /\ captureStarts = 0
    /\ drainerStarts = 0
    /\ drainerPc = "none"
    /\ published = <<>>
    /\ sourceChannel = <<>>
    /\ listeners = {}
    /\ fanPc = "idle"
    /\ fanFrame = NoFrame
    /\ fanIter = {}
    /\ pipePc = [p \in Pipes |-> "none"]
    /\ audioChannel = [p \in Pipes |-> <<>>]
    /\ audioChannelClosed = [p \in Pipes |-> FALSE]
    /\ consecutiveSilentFrames = [p \in Pipes |-> 0]
    /\ streamingActive = [p \in Pipes |-> TRUE]
    /\ received = [p \in Pipes |-> <<>>]
    /\ sent = [p \in Pipes |-> <<>>]
    /\ subscribedAt = [p \in Pipes |-> NeverClean]

InitSession ==
    /\ sessions = [c \in Clients |-> <<>>]
    /\ audioTrack = [c \in Clients |-> NoSession]
    /\ pipeArgs = [p \in Pipes |->
            [owner |-> IF p = "p1" THEN "c1" ELSE "c2",
             track |-> NoSession, by |-> NoSession]]

Init == InitHub /\ InitAudio /\ InitState /\ InitSession

\* The session's connection-state callback reports "connected":
\* `go streamAudioToTrack(client.audioTrack, client.stopAudio)`.
StartStream(p) ==
    /\ Alive
    /\ pipePc[p] = "none"
    /\ pipePc' = [pipePc EXCEPT ![p] = "ensure"]
    /\ UNCHANGED <<sessionVars, stateVars, hubVars, clientVars, httpVars, now, panicked, histVars,
                   captureVars, muxVars, audioChannel, audioChannelClosed,
                   consecutiveSilentFrames, streamingActive, received, sent, subscribedAt>>

\* Mutant of MutexFree: Lock() never waits.
MutexFreeAlways(holder) == TRUE

\* audioCmdMutex.Lock() returns only when nobody holds the mutex.
MutexFree(holder) == holder = NoPipe

\* ensureAudioCapture: audioCmdMutex.Lock()
EnsureLock(p) ==
    /\ Alive
    /\ pipePc[p] = "ensure"
    /\ MutexFree(audioCmdMutex)
    /\ audioCmdMutex' = p
    /\ pipePc' = [pipePc EXCEPT ![p] = "locked"]
    /\ UNCHANGED <<sessionVars, stateVars, hubVars, clientVars, httpVars, now, panicked, histVars,
                   audioCmd, captureStarts, drainerStarts, drainerPc, published,
                   muxVars, audioChannel, audioChannelClosed,
                   consecutiveSilentFrames, streamingActive, received, sent, subscribedAt>>

\* Mutant of CaptureRunning: a stored handle is not recognised.
CaptureRunningNever(cmd) == FALSE

\* `audioCmd != nil && audioCmd.Process != nil`: the handle is stored only
\* after cmd.Start succeeded, so a stored handle has a process.
CaptureRunning(cmd) == cmd # "nil"

\* ensureAudioCapture: the test of the stored handle.  A running capture
\* returns nil at once (the deferred Unlock runs); otherwise the call goes on
\* to start the subprocess.
EnsureCheck(p) ==
    /\ Alive
    /\ pipePc[p] = "locked"
    /\ IF CaptureRunning(audioCmd)
       THEN /\ pipePc' = [pipePc EXCEPT ![p] = "subscribe"]
            /\ audioCmdMutex' = NoPipe
       ELSE /\ pipePc' = [pipePc EXCEPT ![p] = "starting"]
            /\ UNCHANGED audioCmdMutex
    /\ UNCHANGED <<sessionVars, stateVars, hubVars, clientVars, httpVars, now, panicked, histVars,
                   audioCmd, captureStarts, drainerStarts, drainerPc, published,
                   muxVars, audioChannel, audioChannelClosed,
                   consecutiveSilentFrames, streamingActive, received, sent, subscribedAt>>

\* What starting the subprocess can do: StdoutPipe fails, Start fails, or
\* the process runs.
StartOutcomes == {"pipe-error", "start-error", "started"}

\* Mutant of StoredHandle: the handle is stored before the start is known
\* to have succeeded.
StoredHandleEarly(outcome, cmd) == "set"

\* `audioCmd = cmd` comes after both error returns: only a start that
\* succeeded stores the handle.
StoredHandle(outcome, cmd) == IF outcome = "started" THEN "set" ELSE cmd

\* ensureAudioCapture: exec.Command, StdoutPipe, Start, the store of the
\* handle, `go drainAudioPipe(stdout)`, and the deferred Unlock.  An error
\* returns before the handle is stored; streamAudioToTrack then returns
\* without subscribing.
EnsureStart(p, outcome) ==
    /\ Alive
    /\ pipePc[p] = "starting"
    /\ audioCmdMutex' = NoPipe
    /\ audioCmd' = StoredHandle(outcome, audioCmd)
    /\ IF outcome = "started"
       THEN /\ captureStarts' = captureStarts + 1
            /\ drainerStarts' = drainerStarts + 1
            /\ drainerPc' = "reading"
            /\ pipePc' = [pipePc EXCEPT ![p] = "subscribe"]
       ELSE /\ pipePc' = [pipePc EXCEPT ![p] = "done"]
            /\ UNCHANGED <<captureStarts, drainerStarts, drainerPc>>
    /\ UNCHANGED <<sessionVars, stateVars, hubVars, clientVars, httpVars, now, panicked, histVars,
                   published, muxVars, audioChannel, audioChannelClosed,
                   consecutiveSilentFrames, streamingActive, received, sent, subscribedAt>>

\* ---------------------------------------------------------- drainAudioPipe
\* Mutant of IntakeAppend: the drainer reuses one buffer for every read, so
\* the frames still waiting in the intake queue take the new contents.
IntakeAppendSharedBuffer(q, frame) ==
    Append([i \in DOMAIN q |-> [q[i] EXCEPT !.pcm = frame.pcm]], frame)

\* `am.sourceChannel <- frame` with room: the frame, a buffer allocated for
\* this read alone, is appended to the intake queue.
IntakeAppend(q, frame) == Enqueue(q, frame)

\* Mutant of IntakeOnFull: the oldest waiting frame makes room for the new one.
IntakeOnFullDropOldest(q, frame) == Append(Tail(q), frame)

\* The default case of AudioMultiplexer.broadcast: the frame is dropped.
IntakeOnFull(q, frame) == q

\* AudioMultiplexer.broadcast(frame): a non-blocking send to the intake queue.
MuxBroadcast(q, frame) ==
    IF HasRoom(q, IntakeCap) THEN IntakeAppend(q, frame) ELSE IntakeOnFull(q, frame)

\* Mutant of DrainerRunning: the drainer goes on reading after its return.
DrainerRunningAfterExit(pc) == pc # "none"

\* The drainer's loop runs from `go drainAudioPipe(stdout)` to its one
\* `return`, on the first read error.
DrainerRunning(pc) == pc = "reading"

\* One iteration of the drainer: io.ReadFull fills a fresh buffer with one
\* whole frame, which is handed to the multiplexer; the loop goes on.
DrainFrame(pcm) ==
    /\ Alive
    /\ DrainerRunning(drainerPc)
    /\ Len(published) < MaxFrames
    /\ LET frame == [seq |-> Len(published) + 1, pcm |-> pcm] IN
        /\ published' = Append(published, frame)
        /\ sourceChannel' = MuxBroadcast(sourceChannel, frame)
    /\ UNCHANGED <<sessionVars, stateVars, hubVars, clientVars, httpVars, now, panicked, histVars,
                   audioCmd, audioCmdMutex, captureStarts, drainerStarts, drainerPc,
                   listeners, fanPc, fanFrame, fanIter, pipeVars>>

\* io.ReadFull returns an error (end of the stream, a partial last frame, or
\* a read error): the partial data is discarded and the drainer returns.
DrainEnd ==
    /\ Alive
    /\ drainerPc = "reading"
    /\ drainerPc' = "done"
    /\ UNCHANGED <<sessionVars, stateVars, hubVars, clientVars, httpVars, now, panicked, histVars,
                   audioCmd, audioCmdMutex, captureStarts, drainerStarts, published,
                   muxVars, pipeVars>>

\* ------------------------------------------------------- AudioMultiplexer
\* Mutant of AfterReceive: the received frame stays in the queue.
AfterReceiveKeeps(q) == q

\* What `for frame := range am.sourceChannel` leaves in the channel when it
\* has received its head.
AfterReceive(q) == Tail(q)

\* The fan-out goroutine receives a frame from the intake queue, takes the
\* read lock and starts ranging over the listeners.
FanoutTake ==
    /\ Alive
    /\ fanPc = "idle"
    /\ sourceChannel # <<>>
    /\ fanFrame' = Head(sourceChannel)
    /\ sourceChannel' = AfterReceive(sourceChannel)
    /\ fanPc' = "fanning"
    /\ fanIter' = listeners
    /\ UNCHANGED <<sessionVars, stateVars, hubVars, clientVars, httpVars, now, panicked, histVars,
                   captureVars, listeners, pipeVars>>

\* Mutant of ListenerReady: one full queue holds the frame back from everyone.
ListenerReadyAll(p) == \A r \in listeners : HasRoom(audioChannel[r], SubCap)

\* `case ch <- frame:` of the fan-out select is ready when that listener's
\* queue has room; otherwise the default case skips this listener.
ListenerReady(p) == HasRoom(audioChannel[p], SubCap)

\* One iteration of the fan-out loop: a non-blocking send to one listener.
FanoutStep(p) ==
    /\ Alive
    /\ fanPc = "fanning"
    /\ p \in fanIter
    /\ fanIter' = fanIter \ {p}
    /\ IF audioChannelClosed[p]
       THEN panicked' = SendOnClosed /\ UNCHANGED audioChannel
       ELSE /\ audioChannel' = [audioChannel EXCEPT ![p] =
                    IF ListenerReady(p) THEN Enqueue(@, fanFrame) ELSE @]
            /\ UNCHANGED panicked
    /\ UNCHANGED <<sessionVars, stateVars, hubVars, clientVars, httpVars, now, histVars, captureVars,
                   sourceChannel, listeners, fanPc, fanFrame, pipePc,
                   audioChannelClosed, consecutiveSilentFrames,
                   streamingActive, received, sent, subscribedAt>>

\* The loop is over: release the read lock and wait for the next frame.
FanoutEnd ==
    /\ Alive
    /\ fanPc = "fanning"
    /\ fanIter = {}
    /\ fanPc' = "idle"
    /\ fanFrame' = NoFrame
    /\ UNCHANGED <<sessionVars, stateVars, hubVars, clientVars, httpVars, now, panicked, histVars,
                   captureVars, sourceChannel, listeners, fanIter, pipeVars>>

\* Mutant of WriteLockFree: Lock() does not wait for the reader.
WriteLockFreeAlways(pc) == TRUE

\* listenersMutex.Lock() returns only when the fan-out loop, the one
\* reader, is outside its RLock/RUnlock section.
WriteLockFree(pc) == pc = "idle"

\* AudioMultiplexer.subscribe, called by a pipeline whose capture is
\* running: a new queue is registered under the write lock, which waits for
\* the fan-out loop to release its read lock.  The pipeline also starts the
\* goroutine that turns the client's stop signal into its done channel.
Subscribe(p) ==
    /\ Alive
    /\ pipePc[p] = "subscribe"
    /\ WriteLockFree(fanPc)
    /\ listeners' = listeners \cup {p}
    /\ audioChannel' = [audioChannel EXCEPT ![p] = <<>>]
    /\ subscribedAt' = [subscribedAt EXCEPT ![p] =
            IF sourceChannel = <<>> THEN Len(published) ELSE NeverClean]
    /\ pipePc' = [pipePc EXCEPT ![p] = "encoder"]
    /\ UNCHANGED <<sessionVars, stateVars, hubVars, clientVars, httpVars, now, panicked, histVars,
                   captureVars, sourceChannel, fanPc, fanFrame, fanIter,
                   audioChannelClosed, consecutiveSilentFrames,
                   streamingActive, received, sent>>

\* Mutant of RemoveListener: the queue stays in the table.
RemoveListenerKeeps(table, p) == table

\* delete(am.listeners, ch)
RemoveListener(table, p) == table \ {p}

\* AudioMultiplexer.unsubscribe, deferred by the pipeline: under the write
\* lock the queue is removed from the listeners and closed.
Unsubscribe(p) ==
    /\ Alive
    /\ pipePc[p] = "unsubscribe"
    /\ WriteLockFree(fanPc)
    /\ listeners' = RemoveListener(listeners, p)
    /\ IF audioChannelClosed[p]
       THEN panicked' = CloseOfClosed /\ UNCHANGED audioChannelClosed
       ELSE /\ audioChannelClosed' = [audioChannelClosed EXCEPT ![p] = TRUE]
            /\ UNCHANGED panicked
    /\ pipePc' = [pipePc EXCEPT ![p] = "done"]
    /\ UNCHANGED <<sessionVars, stateVars, hubVars, clientVars, httpVars, now, histVars, captureVars,
                   sourceChannel, fanPc, fanFrame, fanIter, audioChannel,
                   consecutiveSilentFrames, streamingActive, received, sent, subscribedAt>>

\* ------------------------------------------------------ streamAudioToTrack
\* The client's read loop has ended: close(client.stopAudio).
StopAudio(c) ==
    /\ Alive
    /\ ~stopAudio[c]
    /\ stopAudio' = [stopAudio EXCEPT ![c] = TRUE]
    /\ UNCHANGED <<sessionVars, stateVars, hubVars, conn, readPc, writePc, send, sendClosed, closeCount,
                   closedBy, peerConnection, candidates, webrtcConnected,
                   lastRefresh, autoRefresh, refreshTasks, refreshPassed, httpVars, now, panicked,
                   histVars, audioVars>>

\* opus.NewEncoder: on an error the pipeline returns (and unsubscribes).
NewEncoder(p, ok) ==
    /\ Alive
    /\ pipePc[p] = "encoder"
    /\ pipePc' = [pipePc EXCEPT ![p] = IF ok THEN "loop" ELSE "unsubscribe"]
    /\ UNCHANGED <<sessionVars, stateVars, hubVars, clientVars, httpVars, now, panicked, histVars,
                   captureVars, muxVars, audioChannel, audioChannelClosed,
                   consecutiveSilentFrames, streamingActive, received, sent, subscribedAt>>

\* Mutant of DoneClosed: the watcher goroutine is never started, so done
\* stays open.
DoneClosedNever(p) == FALSE

\* The pipeline's done channel is closed: its watcher goroutine received
\* from the client's closed stop signal and ran close(done).
DoneClosed(p) == stopAudio[Owner(p)]

\* `case <-done:` of the streaming loop: the watcher goroutine closes done
\* once the client's stop signal is closed, and the pipeline returns.
LoopDone(p) ==
    /\ Alive
    /\ pipePc[p] = "loop"
    /\ DoneClosed(p)
    /\ pipePc' = [pipePc EXCEPT ![p] = "unsubscribe"]
    /\ UNCHANGED <<sessionVars, stateVars, hubVars, clientVars, httpVars, now, panicked, histVars,
                   captureVars, muxVars, audioChannel, audioChannelClosed,
                   consecutiveSilentFrames, streamingActive, received, sent, subscribedAt>>

\* The samples of a frame: len(pcmBuffer) is half the frame's bytes, and
\* each is int16(lo) | int16(hi)<<8, a little-endian two's-complement sample.
Samples(pcm) ==
    [i \in 1..(Len(pcm) \div 2) |->
        LET u == pcm[2 * i - 1] + 256 * pcm[2 * i]
        IN  IF u >= 32768 THEN u - 65536 ELSE u]

\* isSilent: no sample is above the threshold or below its negation.
IsSilent(pcm) ==
    \A i \in DOMAIN Samples(pcm) :
        ~(Samples(pcm)[i] > SilenceThreshold \/ Samples(pcm)[i] < -SilenceThreshold)

\* Mutant of NextSilentFrames: a frame that is not silent leaves the counter.
NextSilentFramesNoReset(count, silent) == IF silent THEN count + 1 ELSE count

\* The silent-frame counter after a frame.
NextSilentFrames(count, silent) == IF silent THEN count + 1 ELSE 0

\* Mutant of NextStreamingActive: the pause comes one silent frame late.
NextStreamingActiveLate(active, count, silent) ==
    IF silent
    THEN IF count + 1 > MaxSilentFrames /\ active THEN FALSE ELSE active
    ELSE IF count >= MaxSilentFrames /\ ~active THEN TRUE ELSE active

\* streamingActive after a frame: the pause at exactly maxSilentFrames
\* silent frames in a row, the resume at the first frame that is not silent.
NextStreamingActive(active, count, silent) ==
    IF silent
    THEN IF count + 1 = MaxSilentFrames /\ active THEN FALSE ELSE active
    ELSE IF count >= MaxSilentFrames /\ ~active THEN TRUE ELSE active

\* Mutant of SilentFramesOf: the counter is one variable shared by every
\* pipeline.
SilentFramesShared(p) == consecutiveSilentFrames["p1"]

\* consecutiveSilentFrames is a local variable of each pipeline's goroutine.
SilentFramesOf(p) == consecutiveSilentFrames[p]

\* Mutant of FrameEndsLoop: a failed encode ends the pipeline too.
FrameEndsLoopOnAnyError(active, encodeOk, writeOk) ==
    active /\ (~encodeOk \/ ~writeOk)

\* The one `return` of the frame case: WriteSample failed.  It is reached
\* only by a frame that passed the gate and was encoded; the gate and a
\* failed encode `continue`.
FrameEndsLoop(active, encodeOk, writeOk) == active /\ encodeOk /\ ~writeOk

\* `case rawBuffer := <-audioChannel:` of the streaming loop: the frame is
\* decoded, classified, counted; while active it is encoded and written to
\* the track.  A failed encode skips the frame, a failed write ends the
\* pipeline.
LoopFrame(p, encodeOk, writeOk) ==
    /\ Alive
    /\ pipePc[p] = "loop"
    /\ audioChannel[p] # <<>>
    /\ LET frame == Head(audioChannel[p])
           silent == IsSilent(frame.pcm)
           active == NextStreamingActive(streamingActive[p], SilentFramesOf(p), silent)
       IN
        /\ audioChannel' = [audioChannel EXCEPT ![p] = Tail(@)]
        /\ received' = [received EXCEPT ![p] = Append(@, frame)]
        /\ consecutiveSilentFrames' = [consecutiveSilentFrames EXCEPT ![p] =
                NextSilentFrames(SilentFramesOf(p), silent)]
        /\ streamingActive' = [streamingActive EXCEPT ![p] = active]
        /\ sent' = [sent EXCEPT ![p] =
                IF active /\ encodeOk /\ writeOk THEN Append(@, frame) ELSE @]
        /\ pipePc' = [pipePc EXCEPT ![p] =
                IF FrameEndsLoop(active, encodeOk, writeOk) THEN "unsubscribe" ELSE @]
    /\ UNCHANGED <<sessionVars, stateVars, hubVars, clientVars, httpVars, now, panicked, histVars,
                   captureVars, muxVars, audioChannelClosed, subscribedAt>>

\* ------------------------------------------------------------ specification
HubStep ==
    \/ HubRegister
    \/ HubUnregister
    \/ HubTakeBroadcast
    \/ \E c \in Clients : HubBroadcastStep(c)
    \/ HubBroadcastEnd

\* The registry and the pumps of two sockets: the hub, both pumps of each
\* client, the socket messages that reach Hub.broadcast or the client's own
\* queue, and the clock broadcaster.
HubNext ==
    \/ \E c \in Clients : HandleWebSocket(c)
    \/ HubStep
    \/ \E c \in Clients : ReadOther(c)
    \/ \E c \in Clients : ReadRefresh(c)
    \/ \E c \in Clients : PeerClose(c)
    \/ \E c \in Clients : ReadError(c)
    \/ \E c \in Clients : SendUnregister(c)
    \/ \E c \in Clients : ReadPumpTeardown(c)
    \/ \E c \in Clients, ok \in BOOLEAN : WriteMessage(c, ok)
    \/ \E c \in Clients : WritePumpExit(c)
    \/ BroadcastTime

HubSpec == Init /\ [][HubNext]_vars

\* Every task that touches one client: the hub, the pumps, negotiation and
\* the three sources of refresh requests, all within one minute of the wall
\* clock (the cooldown over the minutes is run by RefreshSpec,
\* AutoRefreshSpec and CooldownSpec).
ServerNext ==
    \/ \E c \in ServerClients : HandleWebSocket(c)
    \/ HubStep
    \/ \E c \in ServerClients : ReadOther(c)
    \/ \E c \in ServerClients : ReadRefresh(c)
    \/ \E c \in ServerClients : ReadWebrtcConnected(c)
    \/ \E c \in ServerClients : ReadWebrtcDisconnected(c)
    \/ \E c \in ServerClients, o \in OfferOutcomes : ReadOffer(c, o)
    \/ \E c \in ServerClients : SendAnswer(c)
    \/ \E c \in ServerClients : LocalCandidate(c)
    \/ \E c \in ServerClients : PeerClose(c)
    \/ \E c \in ServerClients : ReadError(c)
    \/ \E c \in ServerClients : SendUnregister(c)
    \/ \E c \in ServerClients : ReadPumpTeardown(c)
    \/ \E c \in ServerClients, ok \in BOOLEAN : WriteMessage(c, ok)
    \/ \E c \in ServerClients : WritePumpExit(c)
    \/ \E c \in ServerClients : AutoRefreshFire(c)
    \/ HttpRefreshBegin
    \/ \E c \in ServerClients : HttpRefreshStep(c)
    \/ HttpRefreshEnd
    \/ \E c \in ServerClients : RefreshTaskRun(c)
    \/ BroadcastTime

ServerSpec == Init /\ [][ServerNext]_vars

\* Everything that appends to one client's queue (the hub's broadcast, the
\* answer, the local candidates, a refresh) next to the write pump that
\* empties it, with the socket's whole life.
WriteNext ==
    \/ \E c \in ServerClients : HandleWebSocket(c)
    \/ HubStep
    \/ \E c \in ServerClients : ReadRefresh(c)
    \/ \E c \in ServerClients : ReadOffer(c, "answered")
    \/ \E c \in ServerClients : SendAnswer(c)
    \/ \E c \in ServerClients : LocalCandidate(c)
    \/ \E c \in ServerClients : PeerClose(c)
    \/ \E c \in ServerClients : ReadError(c)
    \/ \E c \in ServerClients : SendUnregister(c)
    \/ \E c \in ServerClients : ReadPumpTeardown(c)
    \/ \E c \in ServerClients, ok \in BOOLEAN : WriteMessage(c, ok)
    \/ \E c \in ServerClients : WritePumpExit(c)
    \/ BroadcastTime

WriteSpec == Init /\ [][WriteNext]_vars

\* The same tasks under the Go scheduler: the hub goroutine runs whenever it
\* can take a step, a read pump blocked on `hub.unregister <- client` is
\* served by the hub's select once the hub keeps coming back to it, and the
\* rest of the deferred function runs once the send returned.
TeardownSpec ==
    /\ WriteSpec
    /\ WF_vars(HubStep)
    /\ \A c \in ServerClients : SF_vars(SendUnregister(c))
    /\ \A c \in ServerClients : WF_vars(ReadPumpTeardown(c))

\* A client whose peer never closes the socket but reads slowly: the clock
\* broadcasts fill its queue until the hub drops it.  Meanwhile the client
\* negotiates a session, whose connected report starts its pipeline, and
\* asks for refreshes; its write pump's pending writes return.
SlowClientNext ==
    \/ \E c \in ServerClients : HandleWebSocket(c)
    \/ HubStep
    \/ BroadcastTime
    \/ \E c \in ServerClients : ReadRefresh(c)
    \/ \E c \in ServerClients : ReadOffer(c, "answered")
    \/ \E c \in ServerClients : SendAnswer(c)
    \/ \E c \in ServerClients : LocalCandidate(c)
    \/ \E c \in ServerClients, i \in 1..MaxSessions, p \in StreamPipes :
          ConnectionStateChange(c, i, "connected", p)
    \/ \E c \in ServerClients : ReadError(c)
    \/ \E c \in ServerClients : SendUnregister(c)
    \/ \E c \in ServerClients : ReadPumpTeardown(c)
    \/ \E c \in ServerClients : WriteMessage(c, TRUE)
    \/ \E c \in ServerClients : WritePumpExit(c)
    \/ \E p \in StreamPipes : EnsureLock(p)
    \/ \E p \in StreamPipes : EnsureCheck(p)
    \/ \E p \in StreamPipes : EnsureStart(p, "started")
    \/ \E p \in StreamPipes : Subscribe(p)
    \/ \E p \in StreamPipes : NewEncoder(p, TRUE)
    \/ \E p \in StreamPipes : LoopDone(p)
    \/ \E p \in StreamPipes : Unsubscribe(p)

\* The same under the Go scheduler: every goroutine that can run does, the
\* hub's select serves a sender that keeps waiting, and a select with
\* several ready cases takes one that stays ready.
SlowClientSpec ==
    /\ Init /\ [][SlowClientNext]_vars
    /\ WF_vars(HubStep)
    /\ \A c \in ServerClients :
        /\ WF_vars(WriteMessage(c, TRUE))
        /\ WF_vars(WritePumpExit(c))
        /\ WF_vars(SendAnswer(c))
        /\ WF_vars(ReadError(c))
        /\ SF_vars(SendUnregister(c))
        /\ WF_vars(ReadPumpTeardown(c))
    /\ \A p \in StreamPipes :
        /\ SF_vars(EnsureLock(p))
        /\ WF_vars(EnsureCheck(p))
        /\ WF_vars(EnsureStart(p, "started"))
        /\ SF_vars(Subscribe(p))
        /\ WF_vars(NewEncoder(p, TRUE))
        /\ SF_vars(LoopDone(p))
        /\ SF_vars(Unsubscribe(p))

\* The Go scheduler runs the hub goroutine whenever it can take a step.
FairServerSpec == ServerSpec /\ WF_vars(HubStep)

\* Brightness values inside the accepted range that a socket sets while a
\* POST sets another.
ConcurrentBrightness == {20, 75}

\* One client whose socket sets the brightness while POST /api/brightness
\* sets it too: each writer stores its value under the lock, then sends its
\* update to Hub.broadcast, and the hub delivers the updates.
ConvergeNext ==
    \/ \E c \in ServerClients : HandleWebSocket(c)
    \/ HubRegister
    \/ HubTakeBroadcast
    \/ \E c \in ServerClients : HubBroadcastStep(c)
    \/ HubBroadcastEnd
    \/ \E c \in ServerClients, v \in ConcurrentBrightness : ReadSetBrightness(c, v)
    \/ \E c \in ServerClients : ReadBroadcastSend(c)
    \/ \E req \in BrightnessRequests : HttpSetBrightness(req)
    \/ HttpSetSend
    \/ \E c \in ServerClients : WriteMessage(c, TRUE)
    \/ \E c \in ServerClients : WritePumpExit(c)

ConvergeSpec == Init /\ [][ConvergeNext]_vars

\* Two clients that set the brightness over their sockets while it is read
\* over HTTP.  The sockets stay open: a client leaves the registry only
\* when the hub finds its queue full.
BrightnessNext ==
    \/ \E c \in Clients : HandleWebSocket(c)
    \/ HubRegister
    \/ HubTakeBroadcast
    \/ \E c \in Clients : HubBroadcastStep(c)
    \/ HubBroadcastEnd
    \/ \E c \in Clients, v \in SocketBrightness : ReadSetBrightness(c, v)
    \/ \E c \in Clients : ReadBroadcastSend(c)
    \/ HttpGetBrightness("GET")
    \/ \E c \in Clients : WriteMessage(c, TRUE)
    \/ \E c \in Clients : WritePumpExit(c)

BrightnessSpec == Init /\ [][BrightnessNext]_vars

\* One client, the handlers of its socket that set and get the tab and get
\* the brightness, and the HTTP handlers that set the brightness and set and
\* get the tab.  The socket stays open.
StateNext ==
    \/ \E c \in ServerClients : HandleWebSocket(c)
    \/ HubRegister
    \/ HubTakeBroadcast
    \/ \E c \in ServerClients : HubBroadcastStep(c)
    \/ HubBroadcastEnd
    \/ \E c \in ServerClients, t \in TabInputs : ReadSetTab(c, t)
    \/ \E c \in ServerClients : ReadGetTab(c)
    \/ \E c \in ServerClients : ReadGetBrightness(c)
    \/ \E c \in ServerClients : ReadBroadcastSend(c)
    \/ \E m \in {"GET", "POST"} : HttpGetTab(m)
    \/ \E req \in BrightnessRequests : HttpSetBrightness(req)
    \/ \E req \in TabRequests : HttpSetTab(req)
    \/ HttpSetSend
    \/ \E c \in ServerClients : WriteMessage(c, TRUE)
    \/ \E c \in ServerClients : WritePumpExit(c)

StateSpec == Init /\ [][StateNext]_vars

\* One client whose refresh requests all come from its own socket, one after
\* the other, while the clock payload fills its queue, its write pump drains
\* it and the minutes pass.
RefreshNext ==
    \/ \E c \in ServerClients : HandleWebSocket(c)
    \/ HubStep
    \/ \E c \in ServerClients : ReadRefresh(c)
    \/ \E c \in ServerClients : PeerClose(c)
    \/ \E c \in ServerClients : ReadError(c)
    \/ \E c \in ServerClients : SendUnregister(c)
    \/ \E c \in ServerClients : ReadPumpTeardown(c)
    \/ \E c \in ServerClients, ok \in BOOLEAN : WriteMessage(c, ok)
    \/ \E c \in ServerClients : WritePumpExit(c)
    \/ BroadcastTime
    \/ TimePasses

RefreshSpec == Init /\ [][RefreshNext]_vars

\* One client whose refresh requests all come from its deferred
\* auto-refresh: its connection reports, the timer, the hub and the clock
\* payload, the write pump, the socket's whole life and the minutes.
AutoRefreshNext ==
    \/ \E c \in ServerClients : HandleWebSocket(c)
    \/ HubStep
    \/ \E c \in ServerClients : ReadWebrtcConnected(c)
    \/ \E c \in ServerClients : ReadWebrtcDisconnected(c)
    \/ \E c \in ServerClients : AutoRefreshFire(c)
    \/ \E c \in ServerClients : PeerClose(c)
    \/ \E c \in ServerClients : ReadError(c)
    \/ \E c \in ServerClients : SendUnregister(c)
    \/ \E c \in ServerClients : ReadPumpTeardown(c)
    \/ \E c \in ServerClients, ok \in BOOLEAN : WriteMessage(c, ok)
    \/ \E c \in ServerClients : WritePumpExit(c)
    \/ BroadcastTime
    \/ TimePasses

AutoRefreshSpec == Init /\ [][AutoRefreshNext]_vars

\* One client asked to refresh from its socket, from POST /api/refresh and
\* from its auto-refresh timer, each call of handleRefreshMessage a task of
\* its own that the scheduler can cut between the cooldown test and the
\* timestamp.
CooldownNext ==
    \/ \E c \in ServerClients : HandleWebSocket(c)
    \/ HubStep
    \/ \E c \in ServerClients : ReadRefreshCheck(c)
    \/ \E c \in ServerClients : ReadRefreshSend(c)
    \/ HttpRefreshBegin
    \/ \E c \in ServerClients : HttpRefreshStep(c)
    \/ HttpRefreshEnd
    \/ \E c \in ServerClients : RefreshTaskCheck(c)
    \/ \E c \in ServerClients : ReadWebrtcConnected(c)
    \/ \E c \in ServerClients : ReadWebrtcDisconnected(c)
    \/ \E c \in ServerClients : AutoRefreshCheck(c)
    \/ \E c \in ServerClients : RefreshTaskSend(c)
    \/ \E c \in ServerClients : PeerClose(c)
    \/ \E c \in ServerClients : ReadError(c)
    \/ \E c \in ServerClients : SendUnregister(c)
    \/ \E c \in ServerClients : ReadPumpTeardown(c)
    \/ \E c \in ServerClients, ok \in BOOLEAN : WriteMessage(c, ok)
    \/ \E c \in ServerClients : WritePumpExit(c)
    \/ BroadcastTime
    \/ TimePasses

CooldownSpec == Init /\ [][CooldownNext]_vars

\* The second client alone: its offers and re-offers with every outcome, its
\* candidates, the transport reports of its sessions, the pipelines they
\* start (on a capture that starts and an encoder that initialises, with no
\* frame produced yet), and the socket's whole life.
SessionClients == {"c2"}

SessionNext ==
    \/ \E c \in SessionClients : HandleWebSocket(c)
    \/ HubRegister
    \/ HubUnregister
    \/ \E c \in SessionClients, o \in OfferOutcomes \cup {"no-description", "no-track"} : ReadOffer(c, o)
    \/ \E c \in SessionClients : SendAnswer(c)
    \/ \E c \in SessionClients, valid \in BOOLEAN : ReadCandidate(c, valid)
    \/ \E c \in SessionClients, i \in 1..MaxSessions, p \in Pipes \cup {NoPipe},
          state \in {"connected", "disconnected", "failed"} :
            ConnectionStateChange(c, i, state, p)
    \/ \E c \in SessionClients : PeerClose(c)
    \/ \E c \in SessionClients : ReadError(c)
    \/ \E c \in SessionClients : SendUnregister(c)
    \/ \E c \in SessionClients : ReadPumpTeardown(c)
    \/ \E c \in SessionClients : WriteMessage(c, TRUE)
    \/ \E c \in SessionClients : WritePumpExit(c)
    \/ \E p \in Pipes : EnsureLock(p)
    \/ \E p \in Pipes : EnsureCheck(p)
    \/ \E p \in Pipes : EnsureStart(p, "started")
    \/ \E p \in Pipes : Subscribe(p)
    \/ \E p \in Pipes : NewEncoder(p, TRUE)
    \/ \E p \in Pipes : LoopDone(p)
    \/ \E p \in Pipes : Unsubscribe(p)

SessionSpec == Init /\ [][SessionNext]_vars

\* The audio path shared by two clients' pipelines: the capture supervisor,
\* the drainer, the multiplexer and its two subscribers.  The frames all
\* carry the same samples and the encoder accepts every frame.
MuxNext ==
    \/ \E p \in Pipes : StartStream(p)
    \/ \E p \in Pipes : EnsureLock(p)
    \/ \E p \in Pipes : EnsureCheck(p)
    \/ \E p \in Pipes, o \in StartOutcomes : EnsureStart(p, o)
    \/ \E pcm \in LoudFrames : DrainFrame(pcm)
    \/ DrainEnd
    \/ FanoutTake
    \/ \E p \in Pipes : FanoutStep(p)
    \/ FanoutEnd
    \/ \E p \in Pipes : Subscribe(p)
    \/ \E p \in Pipes : Unsubscribe(p)
    \/ \E c \in Clients : StopAudio(c)
    \/ \E p \in Pipes, ok \in BOOLEAN : NewEncoder(p, ok)
    \/ \E p \in Pipes : LoopDone(p)
    \/ \E p \in Pipes, w \in BOOLEAN : LoopFrame(p, TRUE, w)

MuxSpec == Init /\ [][MuxNext]_vars

\* Two clients' pipelines on one capture that starts and keeps running,
\* with frames of either kind and an encoder and tracks that accept every
\* frame: the first client's pipeline subscribes and reads; the second
\* client's subscribes, reads or stalls, and leaves when its client stops.
GateNext ==
    \/ \E p \in Pipes : StartStream(p)
    \/ \E p \in Pipes : EnsureLock(p)
    \/ \E p \in Pipes : EnsureCheck(p)
    \/ \E p \in Pipes : EnsureStart(p, "started")
    \/ \E pcm \in PcmFrames : DrainFrame(pcm)
    \/ FanoutTake
    \/ \E p \in Pipes : FanoutStep(p)
    \/ FanoutEnd
    \/ \E p \in Pipes : Subscribe(p)
    \/ \E p \in Pipes : Unsubscribe(p)
    \/ StopAudio(Owner("p2"))
    \/ \E p \in Pipes : NewEncoder(p, TRUE)
    \/ \E p \in Pipes : LoopDone(p)
    \/ \E p \in Pipes : LoopFrame(p, TRUE, TRUE)

GateSpec == Init /\ [][GateNext]_vars

\* The audio path of one client's pipeline, with frames of either kind.
StreamNext ==
    \/ \E p \in StreamPipes : StartStream(p)
    \/ \E p \in StreamPipes : EnsureLock(p)
    \/ \E p \in StreamPipes : EnsureCheck(p)
    \/ \E p \in StreamPipes, o \in StartOutcomes : EnsureStart(p, o)
    \/ \E pcm \in PcmFrames : DrainFrame(pcm)
    \/ DrainEnd
    \/ FanoutTake
    \/ \E p \in StreamPipes : FanoutStep(p)
    \/ FanoutEnd
    \/ \E p \in StreamPipes : Subscribe(p)
    \/ \E p \in StreamPipes : Unsubscribe(p)
    \/ \E c \in ServerClients : StopAudio(c)
    \/ \E p \in StreamPipes, ok \in BOOLEAN : NewEncoder(p, ok)
    \/ \E p \in StreamPipes : LoopDone(p)
    \/ \E p \in StreamPipes, e \in BOOLEAN, w \in BOOLEAN : LoopFrame(p, e, w)

StreamSpec == Init /\ [][StreamNext]_vars

\* The same tasks under the Go scheduler.  A goroutine that can run does
\* run; Lock() on a sync.Mutex or a sync.RWMutex is granted to a waiter that
\* keeps asking (a waiting writer holds new readers back); and a select
\* with several ready cases picks among them at random, so a case that
\* stays ready is taken.
FairStreamSpec ==
    /\ StreamSpec
    /\ WF_vars(FanoutTake \/ (\E p \in StreamPipes : FanoutStep(p)) \/ FanoutEnd)
    /\ \A p \in StreamPipes :
        /\ SF_vars(EnsureLock(p))
        /\ WF_vars(EnsureCheck(p))
        /\ WF_vars(\E o \in StartOutcomes : EnsureStart(p, o))
        /\ SF_vars(Subscribe(p))
        /\ WF_vars(\E ok \in BOOLEAN : NewEncoder(p, ok))
        /\ SF_vars(LoopDone(p))
        /\ SF_vars(Unsubscribe(p))

\* ------------------------------------------------------- registry: claims
\* The hub visits client c in this step of its broadcast loop.
HubVisits(c) == hubPc = "broadcast" /\ c \in hubIter /\ c \notin hubIter'

\* C1: no task ever sends on a client's outbound queue after that queue has
\* been closed, so no client-level event (disconnect, slow client, re-offer)
\* ends the server process with the panic of a send on a closed channel.
C1_NoSendOnClosedQueue == panicked # SendOnClosed

\* C2: every client registered when a broadcast begins is visited by it;
\* a visited client whose queue is not full has the payload appended and
\* stays registered, one whose queue is full is removed; the payload is
\* appended only to queues of registered clients, and when the loop is over
\* every client of the starting registry has the payload or is gone.
C2_BroadcastReachesEveryClient ==
    /\ [](hubPc = "broadcast" /\ hubIter = {} =>
            \A c \in bcastStart : (c \in bcastGot) # (c \notin clients))
    /\ [](bcastGot \subseteq clients)
    /\ [][(hubPc = "idle" /\ hubPc' = "broadcast") => hubIter' = clients]_vars
    /\ [][(hubPc = "broadcast" /\ hubPc' # "broadcast") => hubIter = {}]_vars
    /\ [][\A c \in Clients : HubVisits(c) =>
            /\ c \in clients
            /\ \A d \in Clients \ {c} : send'[d] = send[d]
            /\ IF Len(send[c]) < SendCap
               THEN send'[c] = Append(send[c], hubMsg) /\ c \in clients'
               ELSE send'[c] = send[c] /\ c \notin clients']_vars

\* C2 witness: a broadcast loop is over that appended the payload to one
\* client and removed another.
C2_Witness ==
    /\ hubPc = "broadcast"
    /\ hubIter = {}
    /\ \E c \in bcastStart : c \in bcastGot /\ hubMsg \in Payloads /\ send[c] = <<hubMsg>>
    /\ \E d \in bcastStart : d \notin clients

\* C3: a registered client keeps its queue open; it leaves the registry only
\* through its own unregister or through a broadcast that finds its queue
\* full, and a broadcast that finds the queue full closes it and removes
\* the client in that same step.
C3_FullClientRemovedByNextBroadcast ==
    /\ [](\A c \in clients : ~sendClosed[c])
    /\ [][\A c \in Clients : (c \in clients /\ c \notin clients') =>
            \/ hubPc = "unregister" /\ hubClient = c
            \/ HubVisits(c) /\ Len(send[c]) = SendCap]_vars
    /\ [][\A c \in Clients : (HubVisits(c) /\ Len(send[c]) = SendCap) =>
            /\ c \notin clients'
            /\ sendClosed'[c]
            /\ closedBy'[c] = "broadcast"]_vars

\* C3 witness: a client with a full queue was removed by a broadcast while
\* its read loop still runs (it never asked to be unregistered).
C3_Witness ==
    \E c \in Clients :
        /\ closedBy[c] = "broadcast"
        /\ c \notin clients
        /\ Len(send[c]) = SendCap
        /\ readPc[c] = "reading"

\* C4: the hub's handling of a broadcast always completes: once the hub has
\* taken a payload it gets back to its select, whatever the clients' queues
\* hold.
C4_BroadcastCompletes == (hubPc = "broadcast") ~> (hubPc = "idle")

\* C5: a client's queue is closed at most once, and the unregister of a
\* client that is not in the registry changes nothing.
C5_QueueClosedAtMostOnce ==
    /\ [](\A c \in Clients : closeCount[c] <= 1)
    /\ [](panicked # CloseOfClosed)
    /\ [][(hubPc = "unregister" /\ hubPc' = "idle" /\ hubClient \notin clients) =>
            UNCHANGED <<clients, clientVars, broadcast, panicked>>]_vars

\* C5 witness: the hub has processed the unregister of a client that a
\* broadcast had already dropped and closed.
C5_Witness ==
    \E c \in Clients :
        /\ closedBy[c] = "broadcast"
        /\ closeCount[c] = 1
        /\ readPc[c] \in {"teardown", "done"}
        /\ hubClient # c

\* C6: the registry's membership never changes while the HTTP refresh
\* handler is ranging over it.
C6_NoMutationWhileIterating ==
    [][clients' # clients => httpPc # "iterating"]_vars

\* C7: however many pipelines call ensureAudioCapture at once, at most one
\* capture subprocess is ever started, together with exactly one drainer, and
\* the stored handle says so; a caller that finds the handle returns success
\* and starts nothing.
C7_ExactlyOneCapture ==
    /\ [](captureStarts <= 1)
    /\ [](drainerStarts = captureStarts)
    /\ [](audioCmd = "set" <=> captureStarts = 1)
    /\ [][captureStarts' # captureStarts =>
            captureStarts' = 1 /\ drainerStarts' = 1 /\ drainerPc' = "reading"]_vars
    /\ [][\A p \in Pipes :
            pipePc[p] = "locked" /\ pipePc'[p] # "locked" /\ audioCmd = "set" =>
                /\ pipePc'[p] = "subscribe"
                /\ captureStarts' = captureStarts
                /\ drainerStarts' = drainerStarts
                /\ audioCmd' = audioCmd]_vars

\* C7 witness: both pipelines have come back from ensureAudioCapture with
\* success, and one subprocess and one drainer were started.
C7_Witness ==
    /\ \A p \in Pipes : pipePc[p] \in {"subscribe", "encoder", "loop", "unsubscribe"}
    /\ captureStarts = 1
    /\ drainerStarts = 1

\* The fan-out loop visits listener p in this step.
FanVisits(p) == fanPc = "fanning" /\ p \in fanIter /\ p \notin fanIter'

\* C8: the fan-out loop visits every listener registered when the frame was
\* taken; a visited listener with room gets the frame appended whatever the
\* state of the other queues, a visited listener without room keeps its queue
\* as it was, and nothing else is touched: no other queue, not the intake.
C8_FanoutIndependent ==
    /\ [][fanPc = "idle" /\ fanPc' = "fanning" =>
            fanIter' = listeners /\ fanFrame' = Head(sourceChannel)]_vars
    /\ [][fanPc = "fanning" => listeners' = listeners /\ fanFrame' \in {fanFrame, NoFrame}]_vars
    /\ [][fanPc = "fanning" /\ fanPc' = "idle" => fanIter = {}]_vars
    /\ [][\A p \in Pipes : FanVisits(p) =>
            /\ fanIter' = fanIter \ {p}
            /\ audioChannel'[p] =
                    IF Len(audioChannel[p]) < SubCap
                    THEN Append(audioChannel[p], fanFrame)
                    ELSE audioChannel[p]
            /\ \A r \in Pipes \ {p} : audioChannel'[r] = audioChannel[r]
            /\ sourceChannel' = sourceChannel
            /\ panicked' = panicked]_vars

\* C8 witness: the loop has just finished a frame that one listener, its
\* queue full, missed, and that the other listener received.
C8_Witness ==
    /\ fanPc = "fanning"
    /\ fanIter = {}
    /\ \E p, r \in listeners :
        /\ p # r
        /\ Len(audioChannel[p]) = SubCap
        /\ \A i \in DOMAIN audioChannel[p] : audioChannel[p][i] # fanFrame
        /\ audioChannel[r] # <<>>
        /\ audioChannel[r][Len(audioChannel[r])] = fanFrame

\* C9: a running drainer is never held up by the intake queue; the frame it
\* publishes is appended to the intake when that holds fewer than its
\* capacity, and otherwise reaches no queue at all; either way the drainer
\* goes on reading.
C9_PublishNeverBlocks ==
    /\ [](Alive /\ drainerPc = "reading" /\ Len(published) < MaxFrames =>
            ENABLED (\E pcm \in LoudFrames : DrainFrame(pcm)))
    /\ [][published' # published =>
            /\ Len(published') = Len(published) + 1
            /\ sourceChannel' =
                    IF Len(sourceChannel) < IntakeCap
                    THEN Append(sourceChannel, published'[Len(published')])
                    ELSE sourceChannel
            /\ audioChannel' = audioChannel
            /\ fanFrame' = fanFrame
            /\ drainerPc' = "reading"]_vars

\* C9 witness: the intake is full, the last frame the drainer published is
\* nowhere (not in the intake, not with the fan-out loop, not with a
\* pipeline), at least one pipeline is subscribed, and the drainer is reading.
C9_Witness ==
    /\ Len(sourceChannel) = IntakeCap
    /\ published # <<>>
    /\ LET f == published[Len(published)] IN
          ~(\/ \E i \in DOMAIN sourceChannel : sourceChannel[i] = f
            \/ fanFrame = f
            \/ \E p \in Pipes :
                \/ \E i \in DOMAIN audioChannel[p] : audioChannel[p][i] = f
                \/ \E i \in DOMAIN received[p] : received[p][i] = f)
    /\ listeners # {}
    /\ drainerPc = "reading"

RECURSIVE TrailingSilent(_)
TrailingSilent(frames) ==
    IF frames = <<>> \/ ~IsSilent(frames[Len(frames)].pcm)
    THEN 0
    ELSE 1 + TrailingSilent(SubSeq(frames, 1, Len(frames) - 1))

\* C11: a pipeline that started active with a counter of zero counts the
\* silent frames in a row it has just read; it is paused exactly when that
\* count has reached maxSilentFrames, so it is still active one frame before
\* and active again after the first frame that is not silent; a frame read
\* while paused is not sent, and a frame that is not silent is sent whenever
\* the encoder and the track accept it.
C11_PauseAndResume ==
    /\ [](\A p \in StreamPipes :
            /\ consecutiveSilentFrames[p] = TrailingSilent(received[p])
            /\ streamingActive[p] <=> TrailingSilent(received[p]) < MaxSilentFrames)
    /\ [][\A p \in StreamPipes : received'[p] # received[p] =>
            /\ received'[p] = Append(received[p], Head(audioChannel[p]))
            /\ sent'[p] \in {sent[p], Append(sent[p], Head(audioChannel[p]))}
            /\ ~streamingActive'[p] => sent'[p] = sent[p]]_vars
    /\ [](\A p \in StreamPipes :
            Alive /\ pipePc[p] = "loop" /\ audioChannel[p] # <<>>
                /\ ~IsSilent(Head(audioChannel[p]).pcm) =>
            ENABLED (/\ LoopFrame(p, TRUE, TRUE)
                     /\ streamingActive'[p]
                     /\ sent'[p] = Append(sent[p], Head(audioChannel[p]))))

\* C11 witness: the pipeline has read maxSilentFrames silent frames and then
\* one that is not silent; it is active, and of the last two frames it sent
\* only the one that is not silent.
C11_Witness ==
    /\ Len(received["p1"]) = MaxSilentFrames + 1
    /\ \A i \in 1..MaxSilentFrames : IsSilent(received["p1"][i].pcm)
    /\ ~IsSilent(received["p1"][MaxSilentFrames + 1].pcm)
    /\ streamingActive["p1"]
    /\ consecutiveSilentFrames["p1"] = 0
    /\ sent["p1"] # <<>>
    /\ sent["p1"][Len(sent["p1"])] = received["p1"][MaxSilentFrames + 1]
    /\ \A i \in DOMAIN sent["p1"] : sent["p1"][i] # received["p1"][MaxSilentFrames]

\* The counter, the gating state and the frames sent that the code of
\* lines 644-667 computes from a sequence of frames alone, starting from a
\* counter of zero and an active state, with an encoder and a track that
\* accept every frame.
RECURSIVE GateTrace(_)
GateTrace(frames) ==
    IF frames = <<>>
    THEN [count |-> 0, active |-> TRUE, sent |-> <<>>]
    ELSE LET prev == GateTrace(SubSeq(frames, 1, Len(frames) - 1))
             frame == frames[Len(frames)]
             silent == IsSilent(frame.pcm)
             active == NextStreamingActive(prev.active, prev.count, silent)
         IN [count |-> NextSilentFrames(prev.count, silent),
             active |-> active,
             sent |-> IF active THEN Append(prev.sent, frame) ELSE prev.sent]

\* C12: a pipeline's counter, its gating state and the frames it has sent
\* are a function of the frames that pipeline itself dequeued, whatever the
\* other pipeline subscribed to, read, missed or left; and a step in which a
\* pipeline dequeues nothing changes none of the three.
C12_GatingPerClient ==
    /\ [](\A p \in Pipes :
            /\ consecutiveSilentFrames[p] = GateTrace(received[p]).count
            /\ streamingActive[p] = GateTrace(received[p]).active
            /\ sent[p] = GateTrace(received[p]).sent)
    /\ [][\A p \in Pipes : received'[p] = received[p] =>
            /\ consecutiveSilentFrames'[p] = consecutiveSilentFrames[p]
            /\ streamingActive'[p] = streamingActive[p]
            /\ sent'[p] = sent[p]]_vars

\* C12 witness: the first client's pipeline is active with frames sent while
\* the second client's, which dequeued other frames, is paused and has since
\* unsubscribed.
C12_Witness ==
    /\ streamingActive["p1"]
    /\ sent["p1"] # <<>>
    /\ consecutiveSilentFrames["p1"] # consecutiveSilentFrames["p2"]
    /\ ~streamingActive["p2"]
    /\ received["p1"] # received["p2"]
    /\ pipePc["p2"] = "done"
    /\ audioChannelClosed["p2"]

\* Less than the cooldown has passed since the client's last refresh.
WithinCooldown(c) == lastRefresh[c] # ZeroTime /\ now - lastRefresh[c] < RefreshCooldown

\* C13: a refresh request read from the socket less than the cooldown after
\* the client's last refresh changes neither its queue nor its timestamp; a
\* request made when there was no refresh yet, or when at least the cooldown
\* has passed, appends one refresh command to a queue with room and sets the
\* timestamp to the current time; the timestamp and the refresh commands
\* change in no other way.
C13_RefreshCooldown ==
    /\ [](\A c \in ServerClients :
            Alive /\ readPc[c] = "reading" /\ conn[c] = "open" =>
                IF WithinCooldown(c)
                THEN ~ENABLED (/\ ReadRefresh(c)
                               /\ (send'[c] # send[c] \/ lastRefresh'[c] # lastRefresh[c]))
                ELSE ~sendClosed[c] /\ Len(send[c]) < SendCap =>
                        /\ ENABLED ReadRefresh(c)
                        /\ ~ENABLED (/\ ReadRefresh(c)
                                     /\ ~(/\ send'[c] = Append(send[c], "refresh")
                                          /\ lastRefresh'[c] = now)))
    /\ [][\A c \in ServerClients : lastRefresh'[c] # lastRefresh[c] =>
            ~WithinCooldown(c) /\ lastRefresh'[c] = now]_vars
    /\ [][\A c \in ServerClients :
            Len(send'[c]) > Len(send[c]) /\ send'[c][Len(send'[c])] = "refresh" =>
                ~WithinCooldown(c) /\ lastRefresh'[c] = now]_vars

\* C13 witness: the client's queue holds two refresh commands, the second
\* enqueued at least one cooldown after the first, and a third request now
\* would be refused.
C13_Witness ==
    /\ send["c1"] = <<"refresh", "refresh">>
    /\ lastRefresh["c1"] >= RefreshCooldown
    /\ WithinCooldown("c1")
    /\ readPc["c1"] = "reading"

\* C14: a set-brightness message stores the value that the update it
\* marshals carries; the update reaches Hub.broadcast unchanged; the hub
\* takes the head of Hub.broadcast and visits every registered client, the
\* sender included, appending the update to every open queue with room; the
\* stored value changes only by a set, and a read over HTTP returns it.
C14_BrightnessSetAndBroadcast ==
    /\ [][\A c \in Clients : readPc[c] = "reading" /\ readPc'[c] = "broadcast" =>
            /\ brightnessValue' \in SocketBrightness
            /\ readMsg'[c] = "brightness-update:" \o ToString(brightnessValue')]_vars
    /\ [][\A c \in Clients : readPc[c] = "broadcast" /\ readPc'[c] = "reading" =>
            broadcast' = Append(broadcast, readMsg[c])]_vars
    /\ [][hubPc = "idle" /\ hubPc' = "broadcast" =>
            hubMsg' = Head(broadcast) /\ hubIter' = clients]_vars
    /\ [][hubPc = "broadcast" /\ hubPc' = "idle" => hubIter = {}]_vars
    /\ [][\A c \in Clients :
            HubVisits(c) /\ ~sendClosed[c] /\ Len(send[c]) < SendCap =>
                send'[c] = Append(send[c], hubMsg)]_vars
    /\ [][brightnessValue' # brightnessValue =>
            \E c \in Clients : readPc[c] = "reading" /\ readPc'[c] = "broadcast"]_vars
    /\ [][httpResponse' # httpResponse =>
            /\ httpResponse' = "brightness:" \o ToString(brightnessValue)
            /\ brightnessValue' = brightnessValue]_vars

\* C14 witness: the brightness is 75, both clients are registered with the
\* update carrying 75 at the end of their queues, and the last read over HTTP
\* returned 75.
C14_Witness ==
    /\ brightnessValue = 75
    /\ clients = Clients
    /\ \A c \in Clients :
        /\ send[c] # <<>>
        /\ send[c][Len(send[c])] = "brightness-update:75"
    /\ httpResponse = "brightness:75"

\* C15: the stored brightness is an integer from 0 to 100.
C15_BrightnessInRange == brightnessValue \in MinBrightness..MaxBrightness

\* C16: the stored tab is one of clock, audio, settings, info.
C16_TabValid == tabValue \in ValidTabs

\* The state a set handler can change before it answers.
SetHandlerState == <<brightnessValue, tabValue, broadcast, httpSet>>

\* C17: a POST to a set endpoint whose value is outside the accepted ones can
\* only answer with an error, storing nothing and preparing no update; an
\* error answer comes with no change of the stored values or of
\* Hub.broadcast; a POST of an accepted tab can only store it and prepare the
\* tab-update that carries it, which the handler then appends to
\* Hub.broadcast before answering.
C17_RejectedSetChangesNothing ==
    /\ [](Alive /\ httpSet.pc = "idle" =>
            /\ \A req \in TabRequests : req.method = "POST" /\ req.decodes =>
                IF req.tab \notin ValidTabs
                THEN ~ENABLED (/\ HttpSetTab(req)
                               /\ ~(/\ httpResponse' = BadRequest
                                    /\ UNCHANGED SetHandlerState))
                ELSE ~ENABLED (/\ HttpSetTab(req)
                               /\ ~(/\ tabValue' = req.tab
                                    /\ httpSet'.pc = "sending"
                                    /\ httpSet'.msg = "tab-update:" \o req.tab))
            /\ \A req \in BrightnessRequests :
                /\ req.method = "POST"
                /\ req.decodes
                /\ (req.brightness < MinBrightness \/ req.brightness > MaxBrightness)
                => ~ENABLED (/\ HttpSetBrightness(req)
                             /\ ~(/\ httpResponse' = BadRequest
                                  /\ UNCHANGED SetHandlerState)))
    /\ [][httpResponse' # httpResponse /\ httpResponse' \in {BadRequest, MethodNotAllowed} =>
            UNCHANGED SetHandlerState]_vars
    /\ [][httpSet.pc = "sending" /\ httpSet'.pc = "idle" =>
            /\ broadcast' = Append(broadcast, httpSet.msg)
            /\ httpResponse' = httpSet.reply
            /\ UNCHANGED <<brightnessValue, tabValue>>]_vars

\* C17 witness: a set request was answered with an error, and now a POST of
\* the tab settings has stored it and is about to append its tab-update to an
\* empty Hub.broadcast.
C17_Witness ==
    /\ httpResponse = BadRequest
    /\ httpSet.pc = "sending"
    /\ httpSet.msg = "tab-update:settings"
    /\ tabValue = "settings"
    /\ broadcast = <<>>
    /\ clients = ServerClients

\* C18: POST /api/refresh enqueues a refresh command to every client that
\* was in the registry when the request ran.  Step by step: every client the
\* handler's loop leaves behind got its `go handleRefreshMessage(client)`,
\* and that goroutine, when it runs, leaves the process alive and, unless
\* the client is in its cooldown or its queue is full, appends the refresh
\* command to the client's queue.
C18_RefreshReachesEveryLiveClient ==
    [][\A c \in ServerClients :
        /\ (httpPc = "iterating" /\ c \in httpIter /\ c \notin httpIter')
              => refreshTasks'[c] = refreshTasks[c] + 1
        /\ refreshTasks'[c] < refreshTasks[c]
              => /\ panicked' = "none"
                 /\ (~InCooldown(lastRefresh[c], now) /\ HasRoom(send[c], SendCap))
                       => send'[c] = Append(send[c], "refresh")]_vars

\* C19: a client's messages are written to its socket in the order they
\* were enqueued, whichever task enqueued them, none reordered and none
\* written twice.  Step by step: the queue changes only by one message
\* joining at its tail or by the write pump taking the message at its head,
\* which is the one it writes; what is behind it keeps its order.
C19_WrittenInEnqueueOrder ==
    [][\A c \in ServerClients : send'[c] # send[c] =>
          \/ /\ Len(send'[c]) = Len(send[c]) + 1
             /\ SubSeq(send'[c], 1, Len(send[c])) = send[c]
          \/ /\ writePc[c] = "running"
             /\ send[c] # <<>>
             /\ Receive(send[c]).message = send[c][1]
             /\ send'[c] = SubSeq(send[c], 2, Len(send[c]))]_vars

\* The answer has been enqueued and written; behind it a local candidate
\* and a hub broadcast wait in the queue in the order they were enqueued.
C19_Witness ==
    /\ Alive
    /\ readPc["c1"] = "reading"
    /\ peerConnection["c1"] = "open"
    /\ writePc["c1"] = "running"
    /\ send["c1"] = <<"ice-candidate", "time">>

\* C20: whenever a client's read loop ends, eventually the client is absent
\* from the registry, its queue is closed, its stop signal is closed (by the
\* one close of the deferred function) and its negotiation session, if it
\* has one, is closed.
C20_ReadLoopEndLeadsToCleanup ==
    \A c \in ServerClients :
        (readPc[c] = "unregister") ~>
            /\ c \notin clients
            /\ sendClosed[c]
            /\ closeCount[c] = 1
            /\ stopAudio[c]
            /\ peerConnection[c] # "open"

\* Where a pipeline is between its subscribe and the end of its deferred
\* unsubscribe.
Subscribed == {"encoder", "loop", "unsubscribe"}

\* C21: a pipeline that subscribed and terminates, by the stop signal, a
\* failed track write or a failed encoder initialisation, has had its queue
\* removed from the subscriber table and closed exactly once; a pipeline
\* that aborts because the capture could not be started never subscribed;
\* so the table holds the queues of the pipelines still running, and no
\* others.
C21_UnsubscribedOnEveryExit ==
    /\ [](\A p \in Pipes : p \in listeners <=> pipePc[p] \in Subscribed)
    /\ [](\A p \in Pipes : pipePc[p] \notin Subscribed \cup {"done"}
                              => ~audioChannelClosed[p])
    /\ [](panicked # CloseOfClosed)
    /\ [][\A p \in Pipes : (pipePc[p] # "done" /\ pipePc'[p] = "done") =>
            IF pipePc[p] = "starting"
            THEN /\ p \notin listeners'
                 /\ ~audioChannelClosed'[p]
                 /\ audioChannel'[p] = <<>> /\ received'[p] = <<>>
            ELSE /\ pipePc[p] = "unsubscribe"
                 /\ p \in listeners /\ p \notin listeners'
                 /\ ~audioChannelClosed[p] /\ audioChannelClosed'[p]]_vars
    /\ [][\A p \in Pipes : audioChannelClosed[p] => audioChannelClosed'[p] /\ p \notin listeners']_vars

\* One pipeline gave up because the capture did not start and never
\* subscribed; the other subscribed, ran and terminated with its queue
\* removed and closed.
C21_Witness ==
    /\ pipePc["p2"] = "done" /\ ~audioChannelClosed["p2"]
    /\ pipePc["p1"] = "done" /\ audioChannelClosed["p1"]
    /\ received["p1"] # <<>>
    /\ listeners = {}

\* C22: once a client's stop signal is closed, every streaming pipeline
\* running for that client terminates, also while frames wait in its queue
\* and also when it was started after the signal was closed.
C22_StopEndsPipeline ==
    \A p \in StreamPipes :
        (stopAudio[Owner(p)] /\ pipePc[p] # "none") ~> (pipePc[p] = "done")

\* The pipeline returned on the closed stop signal and unsubscribed while a
\* frame was still waiting in its queue.
C22_Witness ==
    /\ stopAudio["c1"]
    /\ pipePc["p1"] = "done"
    /\ audioChannelClosed["p1"]
    /\ audioChannel["p1"] # <<>>
    /\ received["p1"] # <<>>

\* C23: a deferred auto-refresh that is pending when its client's stop
\* signal is closed observes the cancellation: when it ends after the close
\* it has enqueued no refresh command for the client and has left the
\* client's last-refresh timestamp alone.
C23_AutoRefreshObservesStop ==
    [][\A c \in ServerClients :
        (stopAudio[c] /\ autoRefresh'[c] < autoRefresh[c]) =>
            /\ lastRefresh'[c] = lastRefresh[c]
            /\ send'[c] = send[c]
            /\ panicked' = panicked]_vars

\* A pipeline is running from its start to its return.
Running(p) == pipePc[p] \notin {"none", "done"}

\* C24: at every moment at most one streaming pipeline is running per
\* client, whatever offers and transport reports came, and each running
\* pipeline writes to the track of the session whose connected report
\* started it.
C24_OnePipelinePerClient ==
    /\ \A c \in SessionClients :
          Cardinality({p \in Pipes : Running(p) /\ Owner(p) = c}) <= 1
    /\ \A p \in Pipes : Running(p) => pipeArgs[p].track = pipeArgs[p].by

\* C25: once a client's teardown has completed, every negotiation session
\* ever created for it has been closed, the ones replaced by a later offer
\* and the ones whose offer failed half-way included.
C25_EverySessionClosed ==
    \A c \in SessionClients :
        readPc[c] = "done" =>
            \A i \in DOMAIN sessions[c] : ~sessions[c][i].open

\* C26: when a step of offer handling fails, no answer is sent and the
\* client is left without a session: as long as no offer of the client has
\* succeeded, a candidate it sends is dropped and no session takes it.
C26_FailedOfferLeavesNoSession ==
    [][\A c \in SessionClients :
        /\ (/\ Len(sessions'[c]) > Len(sessions[c])
            /\ sessions'[c][Len(sessions'[c])].stage # "answered")
              => readPc'[c] # "answer" /\ send'[c] = send[c]
        /\ (\A i \in DOMAIN sessions[c] : sessions[c][i].stage # "answered")
              => \A i \in DOMAIN sessions[c] :
                    sessions'[c][i].remote = sessions[c][i].remote]_vars

\* C27: a candidate from a client that has no session changes nothing and
\* is not kept: a session created later starts with no candidate applied.
\* A candidate from a client that has a session goes to that session, the
\* one stored in the client, and to no other: it is applied whenever that
\* session can take it.
C27_CandidateRouting ==
    /\ [](\A c \in SessionClients, valid \in BOOLEAN :
            ~HasSession(c) => ~ENABLED (ReadCandidate(c, valid) /\ vars' # vars))
    /\ [](\A c \in SessionClients :
            (/\ HasSession(c)
             /\ readPc[c] = "reading" /\ conn[c] = "open" /\ Alive
             /\ sessions[c][CurrentSession(c)].open
             /\ sessions[c][CurrentSession(c)].stage # "created"
             /\ sessions[c][CurrentSession(c)].remote < MaxRemoteCandidates)
            => /\ ENABLED ReadCandidate(c, TRUE)
               /\ ~ENABLED (/\ ReadCandidate(c, TRUE)
                            /\ sessions' # [sessions EXCEPT
                                   ![c][CurrentSession(c)].remote = @ + 1]))
    /\ [][\A c \in SessionClients :
            /\ Len(sessions'[c]) > Len(sessions[c])
                  => sessions'[c][Len(sessions'[c])].remote = 0
            /\ \A i \in DOMAIN sessions[c] :
                  sessions'[c][i].remote # sessions[c][i].remote
                      => /\ i = CurrentSession(c)
                         /\ sessions'[c][i].remote = sessions[c][i].remote + 1]_vars

\* The client's first session took a candidate; the session its second
\* offer created has none.
C27_Witness ==
    /\ Len(sessions["c2"]) = 2
    /\ sessions["c2"][1].remote = 1
    /\ sessions["c2"][2].remote = 0
    /\ sessions["c2"][2].stage = "answered"

\* The read pump of c is ready to take a webrtc-disconnected report and a
\* timer can still be started for c.
CanReport(c) ==
    /\ Alive
    /\ readPc[c] = "reading"
    /\ conn[c] = "open"
    /\ autoRefresh[c] < MaxAutoRefresh

\* What the timer of c does when its sleep is over: a refresh request,
\* refused inside the cooldown, if the client is not marked connected;
\* nothing if it is.
TimerRule(c) ==
    autoRefresh'[c] < autoRefresh[c] =>
        IF webrtcConnected[c] \/ WithinCooldown(c)
        THEN UNCHANGED <<lastRefresh, send, panicked>>
        ELSE /\ lastRefresh'[c] = now
             /\ \/ send'[c] = Append(send[c], "refresh")
                \/ Len(send[c]) = SendCap /\ send'[c] = send[c]
                \/ sendClosed[c] /\ send'[c] = send[c]

\* C28 as stated: every webrtc-disconnected report starts a deferred
\* auto-refresh, which after the grace period issues a rate-limited refresh
\* request if the client has not reported webrtc-connected again and none
\* if it has.
C28_EveryReportStartsTimer ==
    /\ [](\A c \in ServerClients :
            CanReport(c) =>
                ~ENABLED (/\ ReadWebrtcDisconnected(c)
                          /\ autoRefresh'[c] # autoRefresh[c] + 1))
    /\ [][\A c \in ServerClients : TimerRule(c)]_vars

\* C28 amended: a webrtc-disconnected report starts a deferred auto-refresh
\* when the client is marked connected, and clears the mark; a report from a
\* client that is not marked connected changes nothing.  After the grace
\* period the timer issues a rate-limited refresh request if the client is
\* not marked connected, and none if it is.
C28_ReportWhileConnectedStartsTimer ==
    /\ [](\A c \in ServerClients :
            CanReport(c) =>
                /\ ENABLED ReadWebrtcDisconnected(c)
                /\ IF webrtcConnected[c]
                   THEN ~ENABLED (/\ ReadWebrtcDisconnected(c)
                                  /\ ~(/\ autoRefresh'[c] = autoRefresh[c] + 1
                                       /\ ~webrtcConnected'[c]))
                   ELSE ~ENABLED (ReadWebrtcDisconnected(c) /\ vars' # vars))
    /\ [][\A c \in ServerClients : TimerRule(c)]_vars
    /\ [][\A c \in ServerClients :
            autoRefresh'[c] > autoRefresh[c] =>
                webrtcConnected[c] /\ ~webrtcConnected'[c]]_vars

\* The client reported connected, then disconnected, and did not report
\* connected again: the timer has run and its refresh command is in the
\* client's queue.
C28_Witness ==
    /\ Alive
    /\ ~webrtcConnected["c1"]
    /\ autoRefresh["c1"] = 0
    /\ lastRefresh["c1"] # ZeroTime
    /\ send["c1"] = <<"refresh">>

\* C29: whatever the interleaving of the refresh requests made for a client
\* from its socket, from POST /api/refresh and from its auto-refresh
\* timers, two refresh commands enqueued to it are at least one cooldown
\* apart; so while less than one cooldown has passed since the server
\* started, its queue never holds two of them.
C29_CooldownUnderConcurrency ==
    \A c \in ServerClients :
        now < RefreshCooldown =>
            Cardinality({i \in DOMAIN send[c] : send[c][i] = "refresh"}) <= 1

\* C30: when the start of the capture subprocess fails, at the output pipe
\* or at the spawn, the call releases the mutex with the handle still
\* absent and no drainer started, and the pipeline that called ends without
\* having subscribed; as long as no start has succeeded the handle is
\* absent, and a call that finds it absent attempts the start again.
C30_FailedStartLeavesCaptureUnset ==
    /\ [](\A p \in Pipes, o \in StartOutcomes \ {"started"} :
            Alive /\ pipePc[p] = "starting" =>
                /\ ENABLED EnsureStart(p, o)
                /\ ~ENABLED (/\ EnsureStart(p, o)
                             /\ ~(/\ audioCmd' = "nil"
                                  /\ audioCmdMutex' = NoPipe
                                  /\ pipePc'[p] = "done"
                                  /\ p \notin listeners'
                                  /\ UNCHANGED <<captureStarts, drainerStarts, drainerPc,
                                                 listeners, audioChannel,
                                                 audioChannelClosed>>)))
    /\ [](drainerStarts = 0 => audioCmd = "nil" /\ drainerPc = "none")
    /\ [](\A p \in Pipes :
            Alive /\ pipePc[p] = "locked" /\ audioCmd = "nil" =>
                /\ ENABLED EnsureCheck(p)
                /\ ~ENABLED (EnsureCheck(p) /\ pipePc'[p] # "starting"))

\* The first pipeline gave up on a failed start without subscribing; the
\* second one's call started the capture, and it now reads frames.
C30_Witness ==
    /\ pipePc["p1"] = "done"
    /\ ~audioChannelClosed["p1"]
    /\ received["p1"] = <<>>
    /\ audioCmd = "set"
    /\ captureStarts = 1
    /\ drainerStarts = 1
    /\ pipePc["p2"] = "loop"
    /\ received["p2"] # <<>>

\* C31: the capture handle is written only by the task that holds
\* audioCmdMutex, inside ensureAudioCapture, and the only write there is
\* from absent to present; a present handle is never cleared and no second
\* subprocess takes its place, whatever pipelines start, stop or
\* unsubscribe, the last subscriber included.
C31_HandleWrittenOnceUnderLock ==
    /\ [][(audioCmd' # audioCmd \/ captureStarts' # captureStarts) =>
            /\ audioCmd = "nil"
            /\ audioCmd' = "set"
            /\ captureStarts' = captureStarts + 1
            /\ audioCmdMutex \in Pipes
            /\ pipePc[audioCmdMutex] = "starting"
            /\ pipePc'[audioCmdMutex] = "subscribe"]_vars
    /\ [][audioCmd = "set" => audioCmd' = "set"]_vars

\* Both pipelines subscribed to the running capture, and both have
\* unsubscribed: the table is empty and the handle is still there.
C31_Witness ==
    /\ audioCmd = "set"
    /\ captureStarts = 1
    /\ listeners = {}
    /\ \A p \in Pipes : pipePc[p] = "done" /\ audioChannelClosed[p]
    /\ audioCmdMutex = NoPipe

\* The pipeline is in its loop with a frame at the head of its queue that
\* the gate lets through.
FramePassesGate(p) ==
    /\ Alive
    /\ pipePc[p] = "loop"
    /\ audioChannel[p] # <<>>
    /\ NextStreamingActive(streamingActive[p], consecutiveSilentFrames[p],
                           IsSilent(Head(audioChannel[p]).pcm))

\* C32: a frame whose encode fails is skipped and nothing else: it is
\* dequeued and counted, nothing is sent, the pipeline stays in its loop,
\* subscribed and with the gating state the frame gives it, and goes on to
\* the next frame.  A frame whose track write fails ends the loop: the
\* pipeline goes to its unsubscribe, and a pipeline that has left the loop
\* dequeues and sends nothing more.
C32_EncodeSkipsWriteEnds ==
    /\ [](\A p \in StreamPipes : FramePassesGate(p) =>
            /\ \A w \in BOOLEAN :
                /\ ENABLED LoopFrame(p, FALSE, w)
                /\ ~ENABLED (/\ LoopFrame(p, FALSE, w)
                             /\ ~(/\ pipePc'[p] = "loop"
                                  /\ p \in listeners'
                                  /\ ~audioChannelClosed'[p]
                                  /\ sent'[p] = sent[p]
                                  /\ audioChannel'[p] = Tail(audioChannel[p])
                                  /\ streamingActive'[p]
                                  /\ consecutiveSilentFrames'[p] =
                                        NextSilentFrames(consecutiveSilentFrames[p],
                                            IsSilent(Head(audioChannel[p]).pcm))))
            /\ ENABLED LoopFrame(p, TRUE, FALSE)
            /\ ~ENABLED (/\ LoopFrame(p, TRUE, FALSE)
                         /\ ~(/\ pipePc'[p] = "unsubscribe"
                              /\ sent'[p] = sent[p])))
    /\ [][\A p \in StreamPipes : pipePc[p] # "loop" =>
            /\ received'[p] = received[p]
            /\ sent'[p] = sent[p]
            /\ pipePc'[p] # "loop" \/ pipePc[p] = "encoder"]_vars

\* Of three frames that are not silent the pipeline skipped the first on a
\* failed encode, sent the second, and left its loop on the failed write
\* of the third.
C32_Witness ==
    /\ Len(received["p1"]) = 3
    /\ \A i \in 1..3 : ~IsSilent(received["p1"][i].pcm)
    /\ sent["p1"] = <<received["p1"][2]>>
    /\ pipePc["p1"] = "unsubscribe"
    /\ ~stopAudio[Owner("p1")]

\* A goroutine other than the read pump is about to read client.lastRefresh:
\* the cooldown test of a refresh goroutine, or of a timer that finds the
\* client disconnected.
TaskReadsLastRefresh(c) ==
    \/ ENABLED RefreshTaskCheck(c)
    \/ ENABLED AutoRefreshCheck(c) /\ StillDisconnected(c)

\* C33: no state has two tasks about to access the same mutable field of a
\* client, one of them writing, without a lock: not the connected flag, not
\* the last-refresh timestamp, not the track handle (the session handle is
\* touched by the read pump alone).  A timer reads client.webrtcConnected
\* (line 802) and the read pump writes it (lines 284 and 289); a
\* connection-state callback reads client.audioTrack (line 469) and the read
\* pump, in a new offer, writes it (line 424).
C33_NoConcurrentFieldAccess ==
    \A c \in ServerClients :
        \* client.lastRefresh: written at line 777, read at line 769
        /\ ~(\/ ENABLED ReadRefreshSend(c)
                /\ (TaskReadsLastRefresh(c) \/ ENABLED RefreshTaskSend(c))
             \/ ENABLED RefreshTaskSend(c)
                /\ (TaskReadsLastRefresh(c) \/ ENABLED ReadRefreshCheck(c))
             \/ refreshPassed[c] > 1)
        /\ ~(/\ ENABLED AutoRefreshCheck(c)
             /\ \/ ENABLED ReadWebrtcConnected(c)
                \/ ENABLED ReadWebrtcDisconnected(c) /\ webrtcConnected[c])
        /\ ~(/\ ENABLED ReadOffer(c, "answered")
             /\ \E i \in 1..MaxSessions, p \in Pipes :
                   ENABLED ConnectionStateChange(c, i, "connected", p))

\* The positions of the brightness updates in a queue.
UpdatesIn(q) ==
    {i \in DOMAIN q :
        \E v \in (MinBrightness - 1)..(MaxBrightness + 1) : q[i] = BrightnessUpdate(v)}

\* C34: once every concurrent brightness write has completed and the hub
\* has delivered every update, the last update enqueued to a client that is
\* registered and was never dropped carries the stored value; so does the
\* last update still waiting in its queue.
C34_LastUpdateIsStoredValue ==
    (/\ hubPc = "idle"
     /\ broadcast = <<>>
     /\ httpSet.pc = "idle"
     /\ \A c \in Clients : readPc[c] # "broadcast") =>
        \A c \in ServerClients :
            (c \in clients /\ ~sendClosed[c] /\ UpdatesIn(send[c]) # {}) =>
                LET last == CHOOSE i \in UpdatesIn(send[c]) :
                                \A j \in UpdatesIn(send[c]) : j <= i
                IN send[c][last] = BrightnessUpdate(brightnessValue)

\* C35: between frames a pipeline is paused exactly when its counter of
\* consecutive silent frames is at least maxSilentFrames; a frame is handed
\* to the encoder and the track exactly when the counter it leaves is below
\* maxSilentFrames, so the silent frame that brings the counter to
\* maxSilentFrames is not sent and the frame that resets it is.
C35_PausedIffCounterAtMax ==
    /\ [](\A p \in StreamPipes :
            ~streamingActive[p] <=> consecutiveSilentFrames[p] >= MaxSilentFrames)
    /\ [][\A p \in StreamPipes : sent'[p] # sent[p] =>
            /\ received'[p] # received[p]
            /\ consecutiveSilentFrames'[p] < MaxSilentFrames]_vars
    /\ [](\A p \in StreamPipes :
            Alive /\ pipePc[p] = "loop" /\ audioChannel[p] # <<>> =>
                ~ENABLED (/\ LoopFrame(p, TRUE, TRUE)
                          /\ ~(consecutiveSilentFrames'[p] < MaxSilentFrames
                                 <=> sent'[p] = Append(sent[p], Head(audioChannel[p])))))

\* After a frame that was sent, the silent frame that brought the counter
\* to maxSilentFrames paused the pipeline and was not sent.
C35_Witness ==
    /\ Len(received["p1"]) = MaxSilentFrames + 1
    /\ ~IsSilent(received["p1"][1].pcm)
    /\ consecutiveSilentFrames["p1"] = MaxSilentFrames
    /\ ~streamingActive["p1"]
    /\ sent["p1"] = <<received["p1"][1]>>
    /\ pipePc["p1"] = "loop"

\* C36: whatever the interleaving of the fan-out loop with subscribe and
\* unsubscribe, every queue the loop has still to visit, and every queue it
\* sends to, is in the subscriber table and open; the loop never sends on a
\* closed queue.
C36_FanoutOnlyToLiveQueues ==
    /\ [](fanPc = "fanning" =>
            \A p \in fanIter : p \in listeners /\ ~audioChannelClosed[p])
    /\ [][\A p \in Pipes : FanVisits(p) =>
            /\ p \in listeners
            /\ ~audioChannelClosed[p]
            /\ panicked' = "none"]_vars
    /\ [](panicked # SendOnClosed)

\* The loop is in the middle of a frame, with the first pipeline's queue
\* still to visit, while that pipeline waits to unsubscribe and the other
\* waits to subscribe.
C36_Witness ==
    /\ fanPc = "fanning"
    /\ "p1" \in fanIter
    /\ pipePc["p1"] = "unsubscribe"
    /\ pipePc["p2"] = "subscribe"

\* The frames a pipeline has got from the multiplexer so far: the ones it
\* dequeued, then the ones waiting in its queue.
Delivered(p) == received[p] \o audioChannel[p]

C38_DroppedClientTornDown ==
    \A c \in ServerClients :
        (closedBy[c] = "broadcast") ~>
            /\ writePc[c] = "done"
            /\ conn[c] = "closed"
            /\ readPc[c] = "done"
            /\ stopAudio[c]
            /\ \A p \in StreamPipes :
                  Owner(p) = c => pipePc[p] \in {"none", "done"} /\ p \notin listeners

\* C39: a refresh request made outside the cooldown while the client's
\* queue is full leaves the queue as it was, the command dropped, and still
\* records the time of the request; and while a recorded time is less than
\* one cooldown old every refresh request leaves the queue and the time
\* alone, whether or not a command was delivered.
C39_DroppedRefreshStartsCooldown ==
    /\ [](\A c \in ServerClients :
            (/\ Alive /\ readPc[c] = "reading" /\ conn[c] = "open"
             /\ ~InCooldown(lastRefresh[c], now)
             /\ ~sendClosed[c]
             /\ ~HasRoom(send[c], SendCap)) =>
                /\ ENABLED ReadRefresh(c)
                /\ ~ENABLED (/\ ReadRefresh(c)
                             /\ ~(/\ send'[c] = send[c]
                                  /\ lastRefresh'[c] = now
                                  /\ InCooldown(lastRefresh'[c], now)
                                  /\ panicked' = "none")))
    /\ [](\A c \in ServerClients :
            (/\ Alive /\ readPc[c] = "reading" /\ conn[c] = "open"
             /\ InCooldown(lastRefresh[c], now)) =>
                ~ENABLED (ReadRefresh(c) /\ vars' # vars))

\* A minute after a request was recorded the client's queue is full of
\* clock payloads, no refresh command among them, and a new request would
\* be refused.
C39_Witness ==
    /\ Alive
    /\ readPc["c1"] = "reading"
    /\ conn["c1"] = "open"
    /\ lastRefresh["c1"] = 0
    /\ now = 1
    /\ send["c1"] = <<"time", "time">>
    /\ ~sendClosed["c1"]

\* A frame is appended to the queue of pipeline p in this step.
FrameDelivered(p) == Len(audioChannel'[p]) > Len(audioChannel[p])

\* After the drainer's exit a call of ensureAudioCapture finds the handle
\* and returns success; no subprocess and no drainer is started.
NoRestartAfterExit ==
    /\ captureStarts' = captureStarts
    /\ drainerStarts' = drainerStarts
    /\ drainerPc' = "done"
    /\ audioCmd' = "set"
    /\ \A p \in Pipes : pipePc[p] = "locked" /\ pipePc'[p] # "locked" =>
            pipePc'[p] = "subscribe"

\* C40 as stated: once the drainer has exited, every later call of
\* ensureAudioCapture returns success and starts nothing, and no frame is
\* delivered to any subscriber any more.
C40_NoFrameAfterDrainerExit ==
    [][drainerPc = "done" =>
          /\ NoRestartAfterExit
          /\ \A p \in Pipes : ~FrameDelivered(p)]_vars

\* C40 amended: once the drainer has exited, every later call of
\* ensureAudioCapture returns success and starts nothing, so no new frame is
\* published; the frames still waiting in the intake are fanned out to the
\* subscribers of the moment, and once the intake is empty and the fan-out
\* loop idle no frame is delivered to any subscriber any more.
C40_NoNewFrameAfterDrainerExit ==
    /\ [][drainerPc = "done" =>
            /\ NoRestartAfterExit
            /\ published' = published
            /\ Len(sourceChannel') <= Len(sourceChannel)
            /\ \A p \in Pipes : FrameDelivered(p) =>
                  /\ fanPc = "fanning"
                  /\ audioChannel'[p] = Append(audioChannel[p], fanFrame)]_vars
    /\ [][(drainerPc = "done" /\ sourceChannel = <<>> /\ fanPc = "idle") =>
            /\ sourceChannel' = <<>> /\ fanPc' = "idle"
            /\ \A p \in Pipes : ~FrameDelivered(p)]_vars

\* The capture ended after its first frame, which the first pipeline read
\* before it left; the second pipeline's call found the handle, subscribed
\* to the empty multiplexer and waits in its loop with nothing to read.
C40_Witness ==
    /\ drainerPc = "done"
    /\ captureStarts = 1
    /\ Len(published) = 1
    /\ sourceChannel = <<>> /\ fanPc = "idle"
    /\ pipePc["p1"] = "done" /\ received["p1"] = published
    /\ pipePc["p2"] = "loop"
    /\ subscribedAt["p2"] = 1
    /\ received["p2"] = <<>> /\ audioChannel["p2"] = <<>>

====
